---- MODULE Spec2Model ----
(***************************************************************************)
(* State-machine model of the Push Chain Solana gateway program            *)
(* (programs/pushsolanagateway): the TSS authority record, the TSS-gated   *)
(* withdrawals, the pause switch and the administrative instructions.      *)
(*                                                                         *)
(* Each instruction handler is an operator from the accounts it is given   *)
(* (the "world" record) and its arguments to a result: an error code, the  *)
(* accounts as the handler left them in memory, and the events it logged.  *)
(* The host runs one instruction at a time and commits the accounts only   *)
(* when the handler returns Ok; otherwise every write is dropped.          *)
(***************************************************************************)
EXTENDS Integers, Sequences, FiniteSets, TLC

VARIABLES
    config,        \* state.rs Config account (PDA "config")
    tss_pda,       \* TssPda account (PDA "tss"), with an `init` flag for "account exists"
    whitelist,     \* state.rs TokenWhitelist.tokens (Vec<Pubkey>)
    lamports,      \* native balance of the vault PDA and of the user accounts
    token_amount,  \* SPL balances, indexed by <<owner, mint>> token account
    tx,            \* result of the instruction the host executed last, until observed
    marked         \* history: one (nonce, signature, message hash) tuple consumed earlier

vars == <<config, tss_pda, whitelist, lamports, token_amount, tx, marked>>

----------------------------------------------------------------------------
(* Bounds of the model *)

\* u64::MAX scaled down: nonces range over 0..U64_MAX and checked_add fails above it
U64_MAX == 2
\* amounts range over 0..MaxAmount
MaxAmount == 1
\* lamports and tokens the vault holds initially
VaultInit == 2

\* lamports and tokens a depositing user holds initially
UserInit == 1

----------------------------------------------------------------------------
(* Identities *)

\* Pubkey::default(), the all-zero key
Default == 0
ADMIN == 1
PAUSER == 2
OUTSIDER == 3
\* Config.tss_address as initialized, and another key it can be set to
TSS_KEY == 4
TSS_KEY_2 == 8
\* Config.pyth_price_feed as initialized
PRICE_FEED == 7
\* Pyth price updates handed to a deposit: the SOL/USD feed at exponent -8, a
\* non-positive price, a finer exponent, and an update of another feed; conf is the
\* confidence interval of the reading and publish_time the time it was published
PriceUpdates ==
    {[feed_matches |-> TRUE, price |-> 500000000, exponent |-> -8, conf |-> 1000, publish_time |-> 1],
     [feed_matches |-> TRUE, price |-> 0, exponent |-> -8, conf |-> 1000, publish_time |-> 1],
     [feed_matches |-> TRUE, price |-> 500000000, exponent |-> -9, conf |-> 1000, publish_time |-> 1],
     [feed_matches |-> FALSE, price |-> 500000000, exponent |-> -8, conf |-> 1000, publish_time |-> 1]}
\* Config USD caps as initialized
CAP_MIN == 1
CAP_MAX == 2
\* the vault PDA (seeds = [VAULT_SEED])
VAULT == 9
\* keys that sign transactions
Signers == {ADMIN, PAUSER, OUTSIDER}
\* keys of the accounts a withdrawal may name as recipient
Recipients == {ADMIN, PAUSER}
\* SPL mints
MINT_A == 5
MINT_B == 6
Mints == {MINT_A, MINT_B}
\* 20-byte Ethereum addresses of secp256k1 signing keys
ETH_A == 21
ETH_B == 22
EthAddrs == {ETH_A, ETH_B}
\* address recovered from a signature that does not fit the digest or the recovery id
ETH_GARBAGE == 29
ChainIds == {1, 2}
Nonces == 0..U64_MAX
Amounts == 0..MaxAmount

InstructionIds == 1..4

----------------------------------------------------------------------------
(* Bytes, hashing and signatures *)

\* b"PUSH_CHAIN_SVM"
PREFIX == <<80, 85, 83, 72, 95, 67, 72, 65, 73, 78, 95, 83, 86, 77>>

\* u64::to_be_bytes: 8 bytes, most significant first (model values stay below 2^24)
to_be_bytes(x) ==
    [i \in 1..8 |-> IF i <= 5 THEN 0
                    ELSE IF i = 6 THEN (x \div 65536) % 256
                    ELSE IF i = 7 THEN (x \div 256) % 256
                    ELSE x % 256]

\* Pubkey::to_bytes: 32 bytes; key k is the key whose last byte is k
to_bytes(k) == [i \in 1..32 |-> IF i = 32 THEN k ELSE 0]

\* buf.extend_from_slice(d) for each d of a slice of byte slices
RECURSIVE ConcatAll(_)
ConcatAll(parts) ==
    IF parts = <<>> THEN <<>> ELSE Head(parts) \o ConcatAll(Tail(parts))

\* keccak::hash: collision-free, so a digest stands for exactly one preimage
hash(bytes) == [keccak |-> bytes]

\* the message buffer without the instruction id byte
BuildMessageOmitId(instruction_id, chain_id, nonce, amount, additional_data) ==
    PREFIX \o to_be_bytes(chain_id) \o to_be_bytes(nonce)
        \o (IF amount # <<>> THEN to_be_bytes(amount[1]) ELSE <<>>)
        \o ConcatAll(additional_data)

\* the message buffer validate_message rebuilds; amount is <<v>> for Some(v), <<>> for None
BuildMessage(instruction_id, chain_id, nonce, amount, additional_data) ==
    PREFIX \o <<instruction_id>> \o to_be_bytes(chain_id) \o to_be_bytes(nonce)
        \o (IF amount # <<>> THEN to_be_bytes(amount[1]) ELSE <<>>)
        \o ConcatAll(additional_data)

\* An ECDSA signature by the key with Ethereum address `addr` over `digest`;
\* v is the recovery id that fits it.
Sign(addr, digest) == [signer |-> addr, digest |-> digest, v |-> 0]

\* secp256k1_recover, followed by keccak of the key and its low 20 bytes: <<>> when
\* recovery fails, else <<address>>. A signature recovers its signer only from the
\* digest it was made over and with its own recovery id; anything else recovers
\* some unrelated key.
secp256k1_recover(digest, recovery_id, signature) ==
    IF recovery_id \notin 0..3 THEN <<>>
    ELSE IF signature.digest = digest /\ signature.v = recovery_id
         THEN <<signature.signer>>
         ELSE <<ETH_GARBAGE>>

----------------------------------------------------------------------------
(* TSS message verification (instructions/tss.rs) *)

\* validate_message without line 86, the checked_add on the stored nonce
validate_message_no_increment(tss, instruction_id, nonce, amount, additional_data, message_hash, signature, recovery_id) ==
    IF nonce # tss.nonce THEN [err |-> "NonceMismatch", tss |-> tss]
    ELSE
        LET computed == hash(BuildMessage(instruction_id, tss.chain_id, nonce,
                                          amount, additional_data))
            recovered == secp256k1_recover(message_hash, recovery_id, signature)
        IN  IF computed # message_hash
            THEN [err |-> "MessageHashMismatch", tss |-> tss]
            ELSE IF recovered = <<>> \/ recovered # <<tss.tss_eth_address>>
                 THEN [err |-> "TssAuthFailed", tss |-> tss]
                 ELSE [err |-> "Ok", tss |-> tss]

\* validate_message without line 85, the require!(nonce == tss.nonce)
validate_message_no_nonce_check(tss, instruction_id, nonce, amount, additional_data, message_hash, signature, recovery_id) ==
    IF tss.nonce + 1 > U64_MAX THEN [err |-> "NonceMismatch", tss |-> tss]
    ELSE
        LET t1 == [tss EXCEPT !.nonce = @ + 1]
            computed == hash(BuildMessage(instruction_id, t1.chain_id, nonce,
                                          amount, additional_data))
            recovered == secp256k1_recover(message_hash, recovery_id, signature)
        IN  IF computed # message_hash
            THEN [err |-> "MessageHashMismatch", tss |-> t1]
            ELSE IF recovered = <<>> \/ recovered # <<t1.tss_eth_address>>
                 THEN [err |-> "TssAuthFailed", tss |-> t1]
                 ELSE [err |-> "Ok", tss |-> t1]

\* validate_message that increments the nonce with wrap-around
validate_message_wrapping(tss, instruction_id, nonce, amount, additional_data, message_hash, signature, recovery_id) ==
    IF nonce # tss.nonce THEN [err |-> "NonceMismatch", tss |-> tss]
    ELSE
        LET t1 == [tss EXCEPT !.nonce = (@ + 1) % (U64_MAX + 1)]
            computed == hash(BuildMessage(instruction_id, t1.chain_id, nonce,
                                          amount, additional_data))
            recovered == secp256k1_recover(message_hash, recovery_id, signature)
        IN  IF computed # message_hash
            THEN [err |-> "MessageHashMismatch", tss |-> t1]
            ELSE IF recovered = <<>> \/ recovered # <<t1.tss_eth_address>>
                 THEN [err |-> "TssAuthFailed", tss |-> t1]
                 ELSE [err |-> "Ok", tss |-> t1]

\* validate_message that accepts whatever address the signature recovers
validate_message_no_address_check(tss, instruction_id, nonce, amount, additional_data, message_hash, signature, recovery_id) ==
    IF nonce # tss.nonce THEN [err |-> "NonceMismatch", tss |-> tss]
    ELSE IF tss.nonce + 1 > U64_MAX THEN [err |-> "NonceMismatch", tss |-> tss]
    ELSE
        LET t1 == [tss EXCEPT !.nonce = @ + 1]
            computed == hash(BuildMessage(instruction_id, t1.chain_id, nonce,
                                          amount, additional_data))
            recovered == secp256k1_recover(message_hash, recovery_id, signature)
        IN  IF computed # message_hash
            THEN [err |-> "MessageHashMismatch", tss |-> t1]
            ELSE IF recovered = <<>>
                 THEN [err |-> "TssAuthFailed", tss |-> t1]
                 ELSE [err |-> "Ok", tss |-> t1]

\* validate_message that checks the signature before the message hash
validate_message_signature_first(tss, instruction_id, nonce, amount, additional_data, message_hash, signature, recovery_id) ==
    IF nonce # tss.nonce THEN [err |-> "NonceMismatch", tss |-> tss]
    ELSE IF tss.nonce + 1 > U64_MAX THEN [err |-> "NonceMismatch", tss |-> tss]
    ELSE
        LET t1 == [tss EXCEPT !.nonce = @ + 1]
            computed == hash(BuildMessage(instruction_id, t1.chain_id, nonce,
                                          amount, additional_data))
            recovered == secp256k1_recover(message_hash, recovery_id, signature)
        IN  IF recovered = <<>> \/ recovered # <<t1.tss_eth_address>>
            THEN [err |-> "TssAuthFailed", tss |-> t1]
            ELSE IF computed # message_hash
                 THEN [err |-> "MessageHashMismatch", tss |-> t1]
                 ELSE [err |-> "Ok", tss |-> t1]

\* Returns the error code and the record as left in memory (the nonce is already
\* incremented when a later step fails).
validate_message(tss, instruction_id, nonce, amount, additional_data, message_hash, signature, recovery_id) ==
    IF nonce # tss.nonce THEN [err |-> "NonceMismatch", tss |-> tss]
    ELSE IF tss.nonce + 1 > U64_MAX THEN [err |-> "NonceMismatch", tss |-> tss]
    ELSE
        LET t1 == [tss EXCEPT !.nonce = @ + 1]
            computed == hash(BuildMessage(instruction_id, t1.chain_id, nonce,
                                          amount, additional_data))
            recovered == secp256k1_recover(message_hash, recovery_id, signature)
        IN  IF computed # message_hash
            THEN [err |-> "MessageHashMismatch", tss |-> t1]
            ELSE IF recovered = <<>> \/ recovered # <<t1.tss_eth_address>>
                 THEN [err |-> "TssAuthFailed", tss |-> t1]
                 ELSE [err |-> "Ok", tss |-> t1]

----------------------------------------------------------------------------
(* Accounts and the host *)

\* the accounts an instruction is given, as one record
World == [config |-> config, tss_pda |-> tss_pda, whitelist |-> whitelist, lamports |-> lamports, token_amount |-> token_amount]

\* whitelist.tokens.contains(&key)
Contains(tokens, key) == \E i \in 1..Len(tokens) : tokens[i] = key

\* a handler's result: error code, accounts as left in memory, events logged, and
\* whether validate_message was called and what it answered
Fail(w, e) == [err |-> e, w |-> w, events |-> <<>>, verify |-> "NotCalled"]
Rejected(w, e) == [err |-> e, w |-> w, events |-> <<>>, verify |-> "Rejected"]
FailAfterVerify(w, e) == [err |-> e, w |-> w, events |-> <<>>, verify |-> "Authorized"]
Success(w, events) == [err |-> "Ok", w |-> w, events |-> events, verify |-> "NotCalled"]
Authorized(w, events) == [err |-> "Ok", w |-> w, events |-> events, verify |-> "Authorized"]

\* system_instruction::transfer run by the system program
SystemTransfer(lam, from, to, amount) ==
    IF lam[from] < amount THEN [err |-> "InsufficientFunds", lamports |-> lam]
    ELSE IF from = to THEN [err |-> "Ok", lamports |-> lam]
    ELSE [err |-> "Ok", lamports |-> [lam EXCEPT ![from] = @ - amount, ![to] = @ + amount]]

\* token::transfer run by the SPL token program; a token account is <<owner, mint>>
TokenTransfer(tok, from, to, authority, amount) ==
    IF from[2] # to[2] THEN [err |-> "MintMismatch", token_amount |-> tok]
    ELSE IF from[1] # authority THEN [err |-> "OwnerMismatch", token_amount |-> tok]
    ELSE IF tok[from] < amount THEN [err |-> "InsufficientFunds", token_amount |-> tok]
    ELSE IF from = to THEN [err |-> "Ok", token_amount |-> tok]
    ELSE [err |-> "Ok", token_amount |-> [tok EXCEPT ![from] = @ - amount, ![to] = @ + amount]]

----------------------------------------------------------------------------
(* TSS-gated withdrawals (instructions/withdraw.rs) *)

\* withdraw_tss releasing the funds without asking validate_message
withdraw_tss_unverified(w, recipient, amount, signature, recovery_id, message_hash, nonce) ==
    IF ~w.config.init \/ ~w.tss_pda.init THEN Fail(w, "AccountNotInitialized")
    ELSE IF w.config.paused THEN Fail(w, "PausedError")
    ELSE IF ~(amount > 0) THEN Fail(w, "InvalidAmount")
    ELSE
        LET t == SystemTransfer(w.lamports, VAULT, recipient, amount)
            w2 == [w EXCEPT !.lamports = t.lamports]
        IN  IF t.err # "Ok" THEN Fail(w, t.err)
            ELSE Success(w2, << [event |-> "WithdrawFunds", recipient |-> recipient, amount |-> amount, token |-> Default] >>)

\* withdraw_tss dropping the result of the transfer (no `?` after invoke_signed)
withdraw_tss_ignore_transfer_error(w, recipient, amount, signature, recovery_id, message_hash, nonce) ==
    IF ~w.config.init \/ ~w.tss_pda.init THEN Fail(w, "AccountNotInitialized")
    ELSE IF w.config.paused THEN Fail(w, "PausedError")
    ELSE IF ~(amount > 0) THEN Fail(w, "InvalidAmount")
    ELSE
        LET v == validate_message(w.tss_pda, 1, nonce, <<amount>>, <<to_bytes(recipient)>>, message_hash, signature, recovery_id)
            w1 == [w EXCEPT !.tss_pda = v.tss]
            t == SystemTransfer(w1.lamports, VAULT, recipient, amount)
            w2 == [w1 EXCEPT !.lamports = t.lamports]
        IN  IF v.err # "Ok" THEN Rejected(w1, v.err)
            ELSE Authorized(w2, << [event |-> "WithdrawFunds", recipient |-> recipient, amount |-> amount, token |-> Default] >>)

\* withdraw_tss without require!(amount > 0)
withdraw_tss_no_amount_check(w, recipient, amount, signature, recovery_id, message_hash, nonce) ==
    IF ~w.config.init \/ ~w.tss_pda.init THEN Fail(w, "AccountNotInitialized")
    ELSE IF w.config.paused THEN Fail(w, "PausedError")
    ELSE
        LET v == validate_message(w.tss_pda, 1, nonce, <<amount>>, <<to_bytes(recipient)>>, message_hash, signature, recovery_id)
            w1 == [w EXCEPT !.tss_pda = v.tss]
            t == SystemTransfer(w1.lamports, VAULT, recipient, amount)
            w2 == [w1 EXCEPT !.lamports = t.lamports]
        IN  IF v.err # "Ok" THEN Rejected(w1, v.err)
            ELSE IF t.err # "Ok" THEN FailAfterVerify(w1, t.err)
            ELSE Authorized(w2, << [event |-> "WithdrawFunds", recipient |-> recipient, amount |-> amount, token |-> Default] >>)

\* WithdrawTss accounts + withdraw_tss
withdraw_tss(w, recipient, amount, signature, recovery_id, message_hash, nonce) ==
    IF ~w.config.init \/ ~w.tss_pda.init THEN Fail(w, "AccountNotInitialized")
    ELSE IF w.config.paused THEN Fail(w, "PausedError")
    ELSE IF ~(amount > 0) THEN Fail(w, "InvalidAmount")
    ELSE
        LET v == validate_message(w.tss_pda, 1, nonce, <<amount>>, <<to_bytes(recipient)>>, message_hash, signature, recovery_id)
            w1 == [w EXCEPT !.tss_pda = v.tss]
            t == SystemTransfer(w1.lamports, VAULT, recipient, amount)
            w2 == [w1 EXCEPT !.lamports = t.lamports]
        IN  IF v.err # "Ok" THEN Rejected(w1, v.err)
            ELSE IF t.err # "Ok" THEN FailAfterVerify(w1, t.err)
            ELSE Authorized(w2, << [event |-> "WithdrawFunds", recipient |-> recipient, amount |-> amount, token |-> Default] >>)

\* withdraw_spl_token_tss that leaves the stored nonce as it was
withdraw_spl_token_tss_nonce_kept(w, token_mint, token_vault, recipient_token_account, amount, signature, recovery_id, message_hash, nonce) ==
    IF ~w.config.init \/ ~w.tss_pda.init THEN Fail(w, "AccountNotInitialized")
    ELSE IF w.config.paused THEN Fail(w, "PausedError")
    ELSE IF ~Contains(w.whitelist, token_mint) THEN Fail(w, "TokenNotWhitelisted")
    ELSE IF ~(amount > 0) THEN Fail(w, "InvalidAmount")
    ELSE
        LET v == validate_message(w.tss_pda, 2, nonce, <<amount>>, <<to_bytes(token_mint)>>, message_hash, signature, recovery_id)
            t == TokenTransfer(w.token_amount, token_vault, recipient_token_account, VAULT, amount)
            w2 == [w EXCEPT !.token_amount = t.token_amount]
        IN  IF v.err # "Ok" THEN Rejected(w, v.err)
            ELSE IF t.err # "Ok" THEN FailAfterVerify(w, t.err)
            ELSE Authorized(w2, << [event |-> "WithdrawFunds", recipient |-> recipient_token_account, amount |-> amount, token |-> token_mint] >>)

\* WithdrawSplTokenTss accounts + withdraw_spl_token_tss
withdraw_spl_token_tss(w, token_mint, token_vault, recipient_token_account, amount, signature, recovery_id, message_hash, nonce) ==
    IF ~w.config.init \/ ~w.tss_pda.init THEN Fail(w, "AccountNotInitialized")
    ELSE IF w.config.paused THEN Fail(w, "PausedError")
    ELSE IF ~Contains(w.whitelist, token_mint) THEN Fail(w, "TokenNotWhitelisted")
    ELSE IF ~(amount > 0) THEN Fail(w, "InvalidAmount")
    ELSE
        LET v == validate_message(w.tss_pda, 2, nonce, <<amount>>, <<to_bytes(token_mint)>>, message_hash, signature, recovery_id)
            w1 == [w EXCEPT !.tss_pda = v.tss]
            t == TokenTransfer(w1.token_amount, token_vault, recipient_token_account, VAULT, amount)
            w2 == [w1 EXCEPT !.token_amount = t.token_amount]
        IN  IF v.err # "Ok" THEN Rejected(w1, v.err)
            ELSE IF t.err # "Ok" THEN FailAfterVerify(w1, t.err)
            ELSE Authorized(w2, << [event |-> "WithdrawFunds", recipient |-> recipient_token_account, amount |-> amount, token |-> token_mint] >>)

\* revert_withdraw without the require!(fund_recipient != Pubkey::default())
revert_withdraw_no_recipient_check(w, recipient, amount, revert_cfg, signature, recovery_id, message_hash, nonce) ==
    IF ~w.config.init \/ ~w.tss_pda.init THEN Fail(w, "AccountNotInitialized")
    ELSE IF w.config.paused THEN Fail(w, "PausedError")
    ELSE IF ~(amount > 0) THEN Fail(w, "InvalidAmount")
    ELSE
        LET v == validate_message(w.tss_pda, 3, nonce, <<amount>>, <<to_bytes(revert_cfg.fund_recipient)>>, message_hash, signature, recovery_id)
            w1 == [w EXCEPT !.tss_pda = v.tss]
            t == IF revert_cfg.fund_recipient \notin {VAULT, recipient}
                 THEN [err |-> "MissingAccount", lamports |-> w1.lamports]
                 ELSE SystemTransfer(w1.lamports, VAULT, revert_cfg.fund_recipient, amount)
            w2 == [w1 EXCEPT !.lamports = t.lamports]
        IN  IF v.err # "Ok" THEN Rejected(w1, v.err)
            ELSE IF t.err # "Ok" THEN FailAfterVerify(w1, t.err)
            ELSE Authorized(w2, << [event |-> "WithdrawFunds", recipient |-> revert_cfg.fund_recipient, amount |-> amount, token |-> Default] >>)

\* RevertWithdraw accounts + revert_withdraw. The transfer instruction names
\* revert_cfg.fund_recipient as destination while the account handed to the system
\* program is `recipient`: the CPI finds no account for the destination unless the
\* two are the same key.
revert_withdraw(w, recipient, amount, revert_cfg, signature, recovery_id, message_hash, nonce) ==
    IF ~w.config.init \/ ~w.tss_pda.init THEN Fail(w, "AccountNotInitialized")
    ELSE IF w.config.paused THEN Fail(w, "PausedError")
    ELSE IF ~(amount > 0) THEN Fail(w, "InvalidAmount")
    ELSE IF ~(revert_cfg.fund_recipient # Default) THEN Fail(w, "InvalidRecipient")
    ELSE
        LET v == validate_message(w.tss_pda, 3, nonce, <<amount>>, <<to_bytes(revert_cfg.fund_recipient)>>, message_hash, signature, recovery_id)
            w1 == [w EXCEPT !.tss_pda = v.tss]
            t == IF revert_cfg.fund_recipient \notin {VAULT, recipient}
                 THEN [err |-> "MissingAccount", lamports |-> w1.lamports]
                 ELSE SystemTransfer(w1.lamports, VAULT, revert_cfg.fund_recipient, amount)
            w2 == [w1 EXCEPT !.lamports = t.lamports]
        IN  IF v.err # "Ok" THEN Rejected(w1, v.err)
            ELSE IF t.err # "Ok" THEN FailAfterVerify(w1, t.err)
            ELSE Authorized(w2, << [event |-> "WithdrawFunds", recipient |-> revert_cfg.fund_recipient, amount |-> amount, token |-> Default] >>)

\* RevertWithdrawSplToken accounts + revert_withdraw_spl_token
revert_withdraw_spl_token(w, token_mint, token_vault, recipient_token_account, amount, revert_cfg, signature, recovery_id, message_hash, nonce) ==
    IF ~w.config.init \/ ~w.tss_pda.init THEN Fail(w, "AccountNotInitialized")
    ELSE IF w.config.paused THEN Fail(w, "PausedError")
    ELSE IF ~Contains(w.whitelist, token_mint) THEN Fail(w, "TokenNotWhitelisted")
    ELSE IF ~(amount > 0) THEN Fail(w, "InvalidAmount")
    ELSE IF ~(revert_cfg.fund_recipient # Default) THEN Fail(w, "InvalidRecipient")
    ELSE
        LET v == validate_message(w.tss_pda, 4, nonce, <<amount>>, <<to_bytes(token_mint)>>, message_hash, signature, recovery_id)
            w1 == [w EXCEPT !.tss_pda = v.tss]
            t == TokenTransfer(w1.token_amount, token_vault, recipient_token_account, VAULT, amount)
            w2 == [w1 EXCEPT !.token_amount = t.token_amount]
        IN  IF v.err # "Ok" THEN Rejected(w1, v.err)
            ELSE IF t.err # "Ok" THEN FailAfterVerify(w1, t.err)
            ELSE Authorized(w2, << [event |-> "WithdrawFunds", recipient |-> revert_cfg.fund_recipient, amount |-> amount, token |-> token_mint] >>)

----------------------------------------------------------------------------
(* TSS record administration (instructions/tss.rs) *)

\* init_tss that accepts a TSS account that already exists
init_tss_overwrite(w, authority, tss_eth_address, chain_id) ==
    Success([w EXCEPT !.tss_pda = [init |-> TRUE, tss_eth_address |-> tss_eth_address, chain_id |-> chain_id, nonce |-> 0, authority |-> authority]], <<>>)

\* InitTss accounts (init: the PDA must not exist yet) + init_tss
init_tss(w, authority, tss_eth_address, chain_id) ==
    IF w.tss_pda.init THEN Fail(w, "AccountAlreadyInUse")
    ELSE Success([w EXCEPT !.tss_pda = [init |-> TRUE, tss_eth_address |-> tss_eth_address, chain_id |-> chain_id, nonce |-> 0, authority |-> authority]], <<>>)

\* UpdateTss accounts (constraint tss_pda.authority == authority.key()) + update_tss
update_tss(w, authority, tss_eth_address, chain_id) ==
    IF ~w.tss_pda.init THEN Fail(w, "AccountNotInitialized")
    ELSE IF ~(w.tss_pda.authority = authority) THEN Fail(w, "ConstraintRaw")
    ELSE Success([w EXCEPT !.tss_pda.tss_eth_address = tss_eth_address, !.tss_pda.chain_id = chain_id], <<>>)

\* reset_nonce without the constraint tss_pda.authority == authority.key()
reset_nonce_no_owner_check(w, authority, new_nonce) ==
    IF ~w.tss_pda.init THEN Fail(w, "AccountNotInitialized")
    ELSE Success([w EXCEPT !.tss_pda.nonce = new_nonce], <<>>)

\* ResetNonce accounts (constraint tss_pda.authority == authority.key()) + reset_nonce
reset_nonce(w, authority, new_nonce) ==
    IF ~w.tss_pda.init THEN Fail(w, "AccountNotInitialized")
    ELSE IF ~(w.tss_pda.authority = authority) THEN Fail(w, "ConstraintRaw")
    ELSE Success([w EXCEPT !.tss_pda.nonce = new_nonce], <<>>)

----------------------------------------------------------------------------
(* Gateway configuration (instructions/initialize.rs) *)

\* the config account before initialize has created it
NoConfig == [init |-> FALSE, admin |-> 0, tss_address |-> 0, pauser |-> 0, min_cap_universal_tx_usd |-> 0, max_cap_universal_tx_usd |-> 0, paused |-> FALSE, pyth_price_feed |-> 0, pyth_confidence_threshold |-> 0]

\* Initialize accounts + initialize; `init` refuses a config account that exists
initialize(w, admin, pauser, tss, min_cap_usd, max_cap_usd, pyth_price_feed) ==
    IF w.config.init THEN Fail(w, "AccountAlreadyInUse")
    ELSE IF ~(min_cap_usd <= max_cap_usd) THEN Fail(w, "InvalidCapRange")
    ELSE IF ~(admin # Default) THEN Fail(w, "ZeroAddress")
    ELSE IF ~(tss # Default) THEN Fail(w, "ZeroAddress")
    ELSE IF ~(pyth_price_feed # Default) THEN Fail(w, "ZeroAddress")
    ELSE Success([w EXCEPT !.config = [init |-> TRUE, admin |-> admin, tss_address |-> tss, pauser |-> pauser, min_cap_universal_tx_usd |-> min_cap_usd, max_cap_universal_tx_usd |-> max_cap_usd, paused |-> FALSE, pyth_price_feed |-> pyth_price_feed, pyth_confidence_threshold |-> 1000000]], <<>>)

----------------------------------------------------------------------------
(* Pause switch and admin configuration (instructions/admin.rs) *)

\* pause without the constraint on the signer
pause_no_signer_check(w, pauser) ==
    IF ~w.config.init THEN Fail(w, "AccountNotInitialized")
    ELSE Success([w EXCEPT !.config.paused = TRUE], <<>>)

\* PauseAction accounts + pause
pause(w, pauser) ==
    IF ~w.config.init THEN Fail(w, "AccountNotInitialized")
    ELSE IF ~(w.config.pauser = pauser \/ w.config.admin = pauser) THEN Fail(w, "Unauthorized")
    ELSE Success([w EXCEPT !.config.paused = TRUE], <<>>)

\* PauseAction accounts + unpause
unpause(w, pauser) ==
    IF ~w.config.init THEN Fail(w, "AccountNotInitialized")
    ELSE IF ~(w.config.pauser = pauser \/ w.config.admin = pauser) THEN Fail(w, "Unauthorized")
    ELSE Success([w EXCEPT !.config.paused = FALSE], <<>>)

\* AdminAction accounts + set_tss_address
set_tss_address(w, admin, new_tss) ==
    IF ~w.config.init THEN Fail(w, "AccountNotInitialized")
    ELSE IF w.config.paused THEN Fail(w, "PausedError")
    ELSE IF ~(w.config.admin = admin) THEN Fail(w, "Unauthorized")
    ELSE IF ~(new_tss # Default) THEN Fail(w, "ZeroAddress")
    ELSE Success([w EXCEPT !.config.tss_address = new_tss], <<>>)

\* set_caps_usd without the constraint on the signer
set_caps_usd_no_admin_check(w, admin, min_cap_usd, max_cap_usd) ==
    IF ~w.config.init THEN Fail(w, "AccountNotInitialized")
    ELSE IF w.config.paused THEN Fail(w, "PausedError")
    ELSE IF ~(min_cap_usd <= max_cap_usd) THEN Fail(w, "InvalidCapRange")
    ELSE Success([w EXCEPT !.config.min_cap_universal_tx_usd = min_cap_usd, !.config.max_cap_universal_tx_usd = max_cap_usd],
                 << [event |-> "CapsUpdated", min_cap_usd |-> min_cap_usd, max_cap_usd |-> max_cap_usd] >>)

\* set_caps_usd without the range check
set_caps_usd_no_range_check(w, admin, min_cap_usd, max_cap_usd) ==
    IF ~w.config.init THEN Fail(w, "AccountNotInitialized")
    ELSE IF w.config.paused THEN Fail(w, "PausedError")
    ELSE IF ~(w.config.admin = admin) THEN Fail(w, "Unauthorized")
    ELSE Success([w EXCEPT !.config.min_cap_universal_tx_usd = min_cap_usd, !.config.max_cap_universal_tx_usd = max_cap_usd],
                 << [event |-> "CapsUpdated", min_cap_usd |-> min_cap_usd, max_cap_usd |-> max_cap_usd] >>)

\* AdminAction accounts + set_caps_usd
set_caps_usd(w, admin, min_cap_usd, max_cap_usd) ==
    IF ~w.config.init THEN Fail(w, "AccountNotInitialized")
    ELSE IF w.config.paused THEN Fail(w, "PausedError")
    ELSE IF ~(w.config.admin = admin) THEN Fail(w, "Unauthorized")
    ELSE IF ~(min_cap_usd <= max_cap_usd) THEN Fail(w, "InvalidCapRange")
    ELSE Success([w EXCEPT !.config.min_cap_universal_tx_usd = min_cap_usd, !.config.max_cap_universal_tx_usd = max_cap_usd],
                 << [event |-> "CapsUpdated", min_cap_usd |-> min_cap_usd, max_cap_usd |-> max_cap_usd] >>)

\* tokens.remove(pos) for the first position holding the token
RemoveFirst(tokens, token) ==
    LET pos == CHOOSE i \in 1..Len(tokens) : tokens[i] = token /\ \A j \in 1..(i - 1) : tokens[j] # token
    IN  SubSeq(tokens, 1, pos - 1) \o SubSeq(tokens, pos + 1, Len(tokens))

\* TokenWhitelist::LEN, the space the whitelist account is created with, in bytes
TokenWhitelist_LEN == 8 + 4 + (32 * 50) + 1 + 100

\* the bytes a TokenWhitelist takes when the account is written back on exit:
\* discriminator, vector length, 32 bytes per token, bump
SerializedLen(tokens) == 8 + 4 + 32 * Len(tokens) + 1

\* whitelist_token on an account of unlimited space
whitelist_token_no_space_limit(w, admin, token) ==
    IF ~w.config.init THEN Fail(w, "AccountNotInitialized")
    ELSE IF w.config.paused THEN Fail(w, "PausedError")
    ELSE IF ~(w.config.admin = admin) THEN Fail(w, "Unauthorized")
    ELSE IF ~(token # Default) THEN Fail(w, "ZeroAddress")
    ELSE IF Contains(w.whitelist, token) THEN Fail(w, "TokenAlreadyWhitelisted")
    ELSE Success([w EXCEPT !.whitelist = Append(@, token)], << [event |-> "TokenWhitelisted", token_address |-> token] >>)

\* whitelist_token without the membership check
whitelist_token_no_duplicate_check(w, admin, token) ==
    IF ~w.config.init THEN Fail(w, "AccountNotInitialized")
    ELSE IF w.config.paused THEN Fail(w, "PausedError")
    ELSE IF ~(w.config.admin = admin) THEN Fail(w, "Unauthorized")
    ELSE IF ~(token # Default) THEN Fail(w, "ZeroAddress")
    ELSE Success([w EXCEPT !.whitelist = Append(@, token)], << [event |-> "TokenWhitelisted", token_address |-> token] >>)

\* WhitelistAction accounts + whitelist_token; the list is written back into the
\* account's TokenWhitelist::LEN bytes when the handler has returned, which fails when
\* it does not fit
whitelist_token(w, admin, token) ==
    IF ~w.config.init THEN Fail(w, "AccountNotInitialized")
    ELSE IF w.config.paused THEN Fail(w, "PausedError")
    ELSE IF ~(w.config.admin = admin) THEN Fail(w, "Unauthorized")
    ELSE IF ~(token # Default) THEN Fail(w, "ZeroAddress")
    ELSE IF Contains(w.whitelist, token) THEN Fail(w, "TokenAlreadyWhitelisted")
    ELSE IF SerializedLen(Append(w.whitelist, token)) > TokenWhitelist_LEN THEN Fail([w EXCEPT !.whitelist = Append(@, token)], "AccountDidNotSerialize")
    ELSE Success([w EXCEPT !.whitelist = Append(@, token)], << [event |-> "TokenWhitelisted", token_address |-> token] >>)

\* remove_whitelist_token that returns Ok for a token the list does not hold
remove_whitelist_token_absent_ok(w, admin, token) ==
    IF ~w.config.init THEN Fail(w, "AccountNotInitialized")
    ELSE IF w.config.paused THEN Fail(w, "PausedError")
    ELSE IF ~(w.config.admin = admin) THEN Fail(w, "Unauthorized")
    ELSE IF ~(token # Default) THEN Fail(w, "ZeroAddress")
    ELSE IF ~Contains(w.whitelist, token) THEN Success(w, <<>>)
    ELSE Success([w EXCEPT !.whitelist = RemoveFirst(@, token)], << [event |-> "TokenRemovedFromWhitelist", token_address |-> token] >>)

\* WhitelistAction accounts + remove_whitelist_token
remove_whitelist_token(w, admin, token) ==
    IF ~w.config.init THEN Fail(w, "AccountNotInitialized")
    ELSE IF w.config.paused THEN Fail(w, "PausedError")
    ELSE IF ~(w.config.admin = admin) THEN Fail(w, "Unauthorized")
    ELSE IF ~(token # Default) THEN Fail(w, "ZeroAddress")
    ELSE IF ~Contains(w.whitelist, token) THEN Fail(w, "TokenNotWhitelisted")
    ELSE Success([w EXCEPT !.whitelist = RemoveFirst(@, token)], << [event |-> "TokenRemovedFromWhitelist", token_address |-> token] >>)

\* set_pyth_price_feed without the constraint on the pause flag
set_pyth_price_feed_no_pause_check(w, admin, price_feed) ==
    IF ~w.config.init THEN Fail(w, "AccountNotInitialized")
    ELSE IF ~(w.config.admin = admin) THEN Fail(w, "Unauthorized")
    ELSE IF ~(price_feed # Default) THEN Fail(w, "ZeroAddress")
    ELSE Success([w EXCEPT !.config.pyth_price_feed = price_feed], <<>>)

\* AdminAction accounts + set_pyth_price_feed
set_pyth_price_feed(w, admin, price_feed) ==
    IF ~w.config.init THEN Fail(w, "AccountNotInitialized")
    ELSE IF w.config.paused THEN Fail(w, "PausedError")
    ELSE IF ~(w.config.admin = admin) THEN Fail(w, "Unauthorized")
    ELSE IF ~(price_feed # Default) THEN Fail(w, "ZeroAddress")
    ELSE Success([w EXCEPT !.config.pyth_price_feed = price_feed], <<>>)

\* AdminAction accounts + set_pyth_confidence_threshold
set_pyth_confidence_threshold(w, admin, threshold) ==
    IF ~w.config.init THEN Fail(w, "AccountNotInitialized")
    ELSE IF w.config.paused THEN Fail(w, "PausedError")
    ELSE IF ~(w.config.admin = admin) THEN Fail(w, "Unauthorized")
    ELSE IF ~(threshold > 0) THEN Fail(w, "InvalidAmount")
    ELSE Success([w EXCEPT !.config.pyth_confidence_threshold = threshold], <<>>)

----------------------------------------------------------------------------
(* Oracle price and USD caps (utils.rs) *)

\* the divisor of `lamports as f64 / 1_000_000_000.0`
LAMPORTS_PER_SOL == 1000000000

\* calculate_sol_price: the price update must carry the SOL/USD feed and a positive
\* price; <<>> stands for Err(InvalidPrice)
calculate_sol_price(price_update) ==
    IF ~price_update.feed_matches THEN <<>>
    ELSE IF ~(price_update.price > 0) THEN <<>>
    ELSE << [price |-> price_update.price, exponent |-> price_update.exponent,
             publish_time |-> price_update.publish_time, confidence |-> price_update.conf] >>

\* f64::round of a non-negative quotient n / d: half rounds away from zero
Round(n, d) == (n \div d) + (IF 2 * (n % d) >= d THEN 1 ELSE 0)

\* 10_i128.pow(k)
RECURSIVE Pow10(_)
Pow10(k) == IF k = 0 THEN 1 ELSE 10 * Pow10(k - 1)

\* (a as f64 / d * b as f64).round() for non-negative a, b and a power of ten d: factors
\* of ten common to d and a or b are cancelled before the product is formed, which
\* leaves the quotient as it is; the floating point of the source gives the same
\* integer for the magnitudes of the model
RECURSIVE MulDivRound(_, _, _)
MulDivRound(a, b, d) ==
    IF a > 0 /\ a % 10 = 0 /\ d % 10 = 0 THEN MulDivRound(a \div 10, b, d \div 10)
    ELSE IF b > 0 /\ b % 10 = 0 /\ d % 10 = 0 THEN MulDivRound(a, b \div 10, d \div 10)
    ELSE Round(a * b, d)

\* lamports_to_usd_amount_i128: (lamports / 1e9 * price).round()
lamports_to_usd_amount_i128(lam, price) == MulDivRound(lam, price.price, LAMPORTS_PER_SOL)

\* usd_amount_8dec of check_usd_caps_with_pyth: the rounded product divided by
\* 10^(exponent + 8) when the exponent is -8 or more, multiplied by 10^(-8 - exponent)
\* when it is less
usd_amount_8dec(lam, price_data) ==
    LET usd_amount_raw == MulDivRound(lam, price_data.price, LAMPORTS_PER_SOL)
    IN  IF price_data.exponent >= -8
        THEN usd_amount_raw \div Pow10(price_data.exponent + 8)
        ELSE usd_amount_raw * Pow10(-8 - price_data.exponent)

\* check_usd_caps_with_pyth with the USD amount wrapping at 150000000
check_usd_caps_with_pyth_wrapping(cfg, lam, price_data) ==
    IF ~(usd_amount_8dec(lam, price_data) % 150000000 >= cfg.min_cap_universal_tx_usd) THEN "BelowMinCap"
    ELSE IF ~(usd_amount_8dec(lam, price_data) % 150000000 <= cfg.max_cap_universal_tx_usd) THEN "AboveMaxCap"
    ELSE "Ok"

\* check_usd_caps_with_pyth that refuses an amount equal to a cap
check_usd_caps_with_pyth_exclusive(cfg, lam, price_data) ==
    IF ~(usd_amount_8dec(lam, price_data) > cfg.min_cap_universal_tx_usd) THEN "BelowMinCap"
    ELSE IF ~(usd_amount_8dec(lam, price_data) < cfg.max_cap_universal_tx_usd) THEN "AboveMaxCap"
    ELSE "Ok"

\* check_usd_caps_with_pyth: the error code, "Ok" when within the caps
check_usd_caps_with_pyth(cfg, lam, price_data) ==
    IF ~(usd_amount_8dec(lam, price_data) >= cfg.min_cap_universal_tx_usd) THEN "BelowMinCap"
    ELSE IF ~(usd_amount_8dec(lam, price_data) <= cfg.max_cap_universal_tx_usd) THEN "AboveMaxCap"
    ELSE "Ok"

\* check_usd_caps that refuses a reading whose confidence interval exceeds
\* pyth_confidence_threshold or that was published at time 0
check_usd_caps_confidence_checked(cfg, lam, price_update) ==
    LET price_data == calculate_sol_price(price_update)
    IN  IF price_data = <<>> THEN "InvalidPrice"
        ELSE IF price_data[1].confidence > cfg.pyth_confidence_threshold \/ price_data[1].publish_time = 0 THEN "InvalidPrice"
        ELSE check_usd_caps_with_pyth(cfg, lam, price_data[1])

\* check_usd_caps
check_usd_caps(cfg, lam, price_update) ==
    LET price_data == calculate_sol_price(price_update)
    IN  IF price_data = <<>> THEN "InvalidPrice" ELSE check_usd_caps_with_pyth(cfg, lam, price_data[1])

\* UniversalPayload's Borsh serialization (AnchorSerialize): the fields in declaration
\* order, the byte vector preceded by its length, the enum as its variant index; one
\* element stands for one fixed-width field
try_to_vec(payload) ==
    <<payload.to, payload.value, Len(payload.data)>> \o payload.data
        \o <<payload.gas_limit, payload.max_fee_per_gas, payload.max_priority_fee_per_gas, payload.nonce, payload.deadline, payload.v_type>>

\* UniversalPayload's Borsh deserialization (AnchorDeserialize); <<>> when the bytes are
\* not a serialized payload
try_from_slice(bytes) ==
    IF Len(bytes) < 3 \/ Len(bytes) # 9 + bytes[3] THEN <<>>
    ELSE LET n == bytes[3]
         IN  [to |-> bytes[1], value |-> bytes[2], data |-> SubSeq(bytes, 4, 3 + n),
              gas_limit |-> bytes[4 + n], max_fee_per_gas |-> bytes[5 + n], max_priority_fee_per_gas |-> bytes[6 + n],
              nonce |-> bytes[7 + n], deadline |-> bytes[8 + n], v_type |-> bytes[9 + n]]

\* payload_hash: sha256 of the serialized payload
payload_hash(payload) == [sha256 |-> try_to_vec(payload)]

\* payload_to_bytes that keeps only the payload's data field
payload_to_bytes_data_only(payload) == payload.data

\* payload_to_bytes
payload_to_bytes(payload) == try_to_vec(payload)

----------------------------------------------------------------------------
(* Deposits (instructions/deposit.rs, instructions/legacy.rs) *)

\* the constraints of SendFunds / SendTxWithFunds on the two token accounts; the mint
\* they are compared with is the bridge_token account, not the instruction argument
TokenAccountConstraints(user, user_token_account, gateway_token_account, bridge_token_account) ==
    IF user_token_account[1] # user THEN "InvalidOwner"
    ELSE IF user_token_account[2] # bridge_token_account THEN "InvalidMint"
    ELSE IF gateway_token_account[1] # VAULT THEN "InvalidOwner"
    ELSE IF gateway_token_account[2] # bridge_token_account THEN "InvalidMint"
    ELSE "Ok"

\* send_tx_with_gas without its pause check
send_tx_with_gas_no_pause_check(w, user, payload, revert_cfg, amount, price_update) ==
    IF ~w.config.init THEN Fail(w, "AccountNotInitialized")
    ELSE IF ~(revert_cfg.fund_recipient # Default) THEN Fail(w, "InvalidRecipient")
    ELSE IF ~(amount > 0) THEN Fail(w, "InvalidAmount")
    ELSE IF ~(w.lamports[user] >= amount) THEN Fail(w, "InsufficientBalance")
    ELSE
        LET caps == check_usd_caps(w.config, amount, price_update)
            t == SystemTransfer(w.lamports, user, VAULT, amount)
        IN  IF caps # "Ok" THEN Fail(w, caps)
            ELSE IF t.err # "Ok" THEN Fail(w, t.err)
            ELSE Success([w EXCEPT !.lamports = t.lamports],
                         << [event |-> "TxWithGas", sender |-> user, payload_hash |-> payload_hash(payload), native_token_deposited |-> amount, revert_cfg |-> revert_cfg, tx_type |-> "GasAndPayload"] >>)

\* send_tx_with_gas without the USD cap check
send_tx_with_gas_no_cap_check(w, user, payload, revert_cfg, amount, price_update) ==
    IF ~w.config.init THEN Fail(w, "AccountNotInitialized")
    ELSE IF w.config.paused THEN Fail(w, "Paused")
    ELSE IF ~(revert_cfg.fund_recipient # Default) THEN Fail(w, "InvalidRecipient")
    ELSE IF ~(amount > 0) THEN Fail(w, "InvalidAmount")
    ELSE IF ~(w.lamports[user] >= amount) THEN Fail(w, "InsufficientBalance")
    ELSE
        LET t == SystemTransfer(w.lamports, user, VAULT, amount)
        IN  IF t.err # "Ok" THEN Fail(w, t.err)
            ELSE Success([w EXCEPT !.lamports = t.lamports],
                         << [event |-> "TxWithGas", sender |-> user, payload_hash |-> payload_hash(payload), native_token_deposited |-> amount, revert_cfg |-> revert_cfg, tx_type |-> "GasAndPayload"] >>)

\* SendTxWithGas accounts + send_tx_with_gas
send_tx_with_gas(w, user, payload, revert_cfg, amount, price_update) ==
    IF ~w.config.init THEN Fail(w, "AccountNotInitialized")
    ELSE IF w.config.paused THEN Fail(w, "Paused")
    ELSE IF ~(revert_cfg.fund_recipient # Default) THEN Fail(w, "InvalidRecipient")
    ELSE IF ~(amount > 0) THEN Fail(w, "InvalidAmount")
    ELSE IF ~(w.lamports[user] >= amount) THEN Fail(w, "InsufficientBalance")
    ELSE
        LET caps == check_usd_caps(w.config, amount, price_update)
            t == SystemTransfer(w.lamports, user, VAULT, amount)
        IN  IF caps # "Ok" THEN Fail(w, caps)
            ELSE IF t.err # "Ok" THEN Fail(w, t.err)
            ELSE Success([w EXCEPT !.lamports = t.lamports],
                         << [event |-> "TxWithGas", sender |-> user, payload_hash |-> payload_hash(payload), native_token_deposited |-> amount, revert_cfg |-> revert_cfg, tx_type |-> "GasAndPayload"] >>)

\* SendFunds accounts + send_funds
send_funds(w, user, recipient, bridge_token, bridge_amount, revert_cfg, user_token_account, gateway_token_account, bridge_token_account) ==
    LET accts == TokenAccountConstraints(user, user_token_account, gateway_token_account, bridge_token_account)
        t == TokenTransfer(w.token_amount, user_token_account, gateway_token_account, user, bridge_amount)
    IN  IF ~w.config.init THEN Fail(w, "AccountNotInitialized")
        ELSE IF accts # "Ok" THEN Fail(w, accts)
        ELSE IF w.config.paused THEN Fail(w, "Paused")
        ELSE IF ~(recipient # Default) THEN Fail(w, "InvalidRecipient")
        ELSE IF ~(revert_cfg.fund_recipient # Default) THEN Fail(w, "InvalidRecipient")
        ELSE IF ~(bridge_amount > 0) THEN Fail(w, "InvalidAmount")
        ELSE IF ~(bridge_token # Default) THEN Fail(w, "InvalidToken")
        ELSE IF ~Contains(w.whitelist, bridge_token) THEN Fail(w, "TokenNotWhitelisted")
        ELSE IF t.err # "Ok" THEN Fail(w, t.err)
        ELSE Success([w EXCEPT !.token_amount = t.token_amount],
                     << [event |-> "TxWithFunds", sender |-> user, recipient |-> recipient, bridge_amount |-> bridge_amount, gas_amount |-> 0, bridge_token |-> bridge_token, data |-> <<>>, revert_cfg |-> revert_cfg, tx_type |-> "Funds"] >>)

\* send_funds_native with the USD cap check of the gas route added
send_funds_native_cap_checked(w, user, recipient, bridge_amount, revert_cfg) ==
    LET t == SystemTransfer(w.lamports, user, VAULT, bridge_amount)
        caps == check_usd_caps(w.config, bridge_amount, [feed_matches |-> TRUE, price |-> 500000000, exponent |-> -8, conf |-> 1000, publish_time |-> 1])
    IN  IF ~w.config.init THEN Fail(w, "AccountNotInitialized")
        ELSE IF w.config.paused THEN Fail(w, "Paused")
        ELSE IF ~(recipient # Default) THEN Fail(w, "InvalidRecipient")
        ELSE IF ~(revert_cfg.fund_recipient # Default) THEN Fail(w, "InvalidRecipient")
        ELSE IF ~(bridge_amount > 0) THEN Fail(w, "InvalidAmount")
        ELSE IF ~(w.lamports[user] >= bridge_amount) THEN Fail(w, "InsufficientBalance")
        ELSE IF caps # "Ok" THEN Fail(w, caps)
        ELSE IF t.err # "Ok" THEN Fail(w, t.err)
        ELSE Success([w EXCEPT !.lamports = t.lamports],
                     << [event |-> "TxWithFunds", sender |-> user, recipient |-> recipient, bridge_amount |-> bridge_amount, gas_amount |-> 0, bridge_token |-> Default, data |-> <<>>, revert_cfg |-> revert_cfg, tx_type |-> "Funds"] >>)

\* SendFundsNative accounts + send_funds_native
send_funds_native(w, user, recipient, bridge_amount, revert_cfg) ==
    LET t == SystemTransfer(w.lamports, user, VAULT, bridge_amount)
    IN  IF ~w.config.init THEN Fail(w, "AccountNotInitialized")
        ELSE IF w.config.paused THEN Fail(w, "Paused")
        ELSE IF ~(recipient # Default) THEN Fail(w, "InvalidRecipient")
        ELSE IF ~(revert_cfg.fund_recipient # Default) THEN Fail(w, "InvalidRecipient")
        ELSE IF ~(bridge_amount > 0) THEN Fail(w, "InvalidAmount")
        ELSE IF ~(w.lamports[user] >= bridge_amount) THEN Fail(w, "InsufficientBalance")
        ELSE IF t.err # "Ok" THEN Fail(w, t.err)
        ELSE Success([w EXCEPT !.lamports = t.lamports],
                     << [event |-> "TxWithFunds", sender |-> user, recipient |-> recipient, bridge_amount |-> bridge_amount, gas_amount |-> 0, bridge_token |-> Default, data |-> <<>>, revert_cfg |-> revert_cfg, tx_type |-> "Funds"] >>)

\* send_tx_with_funds with the balance checks made on the balance at call time,
\* before the gas transfer
send_tx_with_funds_check_first(w, user, bridge_token, bridge_amount, payload, revert_cfg, gas_amount, price_update, user_token_account, gateway_token_account, bridge_token_account, overflow_checks) ==
    LET accts == TokenAccountConstraints(user, user_token_account, gateway_token_account, bridge_token_account)
        caps == check_usd_caps(w.config, gas_amount, price_update)
        g == SystemTransfer(w.lamports, user, VAULT, gas_amount)
        w1 == [w EXCEPT !.lamports = g.lamports]
        gas_event == [event |-> "TxWithGas", sender |-> user, payload_hash |-> <<>>, native_token_deposited |-> gas_amount, revert_cfg |-> [fund_recipient |-> user], tx_type |-> "Gas"]
        funds_event == [event |-> "TxWithFunds", sender |-> user, recipient |-> Default, bridge_amount |-> bridge_amount, gas_amount |-> gas_amount, bridge_token |-> bridge_token, data |-> payload_to_bytes(payload), revert_cfg |-> revert_cfg, tx_type |-> "FundsAndPayload"]
        sum == bridge_amount + gas_amount
        n == SystemTransfer(w1.lamports, user, VAULT, bridge_amount)
        t == TokenTransfer(w1.token_amount, user_token_account, gateway_token_account, user, bridge_amount)
    IN  IF ~w.config.init THEN Fail(w, "AccountNotInitialized")
        ELSE IF accts # "Ok" THEN Fail(w, accts)
        ELSE IF w.config.paused THEN Fail(w, "Paused")
        ELSE IF ~(bridge_amount > 0) THEN Fail(w, "InvalidAmount")
        ELSE IF ~(revert_cfg.fund_recipient # Default) THEN Fail(w, "InvalidRecipient")
        ELSE IF ~(gas_amount > 0) THEN Fail(w, "InvalidAmount")
        ELSE IF caps # "Ok" THEN Fail(w, caps)
        ELSE IF bridge_token = Default
        THEN IF sum > U64_MAX /\ overflow_checks THEN Fail(w, "Panic")
             ELSE IF ~(w.lamports[user] >= sum % (U64_MAX + 1)) THEN Fail(w, "InsufficientBalance")
             ELSE IF g.err # "Ok" THEN Fail(w, g.err)
             ELSE IF n.err # "Ok" THEN Fail(w1, n.err)
             ELSE Success([w1 EXCEPT !.lamports = n.lamports], <<gas_event, funds_event>>)
        ELSE IF ~(w.lamports[user] >= gas_amount) THEN Fail(w, "InsufficientBalance")
             ELSE IF ~Contains(w.whitelist, bridge_token) THEN Fail(w, "TokenNotWhitelisted")
             ELSE IF g.err # "Ok" THEN Fail(w, g.err)
             ELSE IF t.err # "Ok" THEN Fail(w1, t.err)
             ELSE Success([w1 EXCEPT !.token_amount = t.token_amount], <<gas_event, funds_event>>)

\* SendTxWithFunds accounts + send_tx_with_funds. The gas transfer and its event come
\* first; the balance checks that follow read the user's lamports after that transfer.
\* bridge_amount + gas_amount is a plain u64 addition: it panics when the build checks
\* overflow and wraps when it does not.
send_tx_with_funds(w, user, bridge_token, bridge_amount, payload, revert_cfg, gas_amount, price_update, user_token_account, gateway_token_account, bridge_token_account, overflow_checks) ==
    LET accts == TokenAccountConstraints(user, user_token_account, gateway_token_account, bridge_token_account)
        caps == check_usd_caps(w.config, gas_amount, price_update)
        g == SystemTransfer(w.lamports, user, VAULT, gas_amount)
        w1 == [w EXCEPT !.lamports = g.lamports]
        gas_event == [event |-> "TxWithGas", sender |-> user, payload_hash |-> <<>>, native_token_deposited |-> gas_amount, revert_cfg |-> [fund_recipient |-> user], tx_type |-> "Gas"]
        funds_event == [event |-> "TxWithFunds", sender |-> user, recipient |-> Default, bridge_amount |-> bridge_amount, gas_amount |-> gas_amount, bridge_token |-> bridge_token, data |-> payload_to_bytes(payload), revert_cfg |-> revert_cfg, tx_type |-> "FundsAndPayload"]
        sum == bridge_amount + gas_amount
        n == SystemTransfer(w1.lamports, user, VAULT, bridge_amount)
        t == TokenTransfer(w1.token_amount, user_token_account, gateway_token_account, user, bridge_amount)
    IN  IF ~w.config.init THEN Fail(w, "AccountNotInitialized")
        ELSE IF accts # "Ok" THEN Fail(w, accts)
        ELSE IF w.config.paused THEN Fail(w, "Paused")
        ELSE IF ~(bridge_amount > 0) THEN Fail(w, "InvalidAmount")
        ELSE IF ~(revert_cfg.fund_recipient # Default) THEN Fail(w, "InvalidRecipient")
        ELSE IF ~(gas_amount > 0) THEN Fail(w, "InvalidAmount")
        ELSE IF caps # "Ok" THEN Fail(w, caps)
        ELSE IF g.err # "Ok" THEN Fail(w, g.err)
        ELSE IF bridge_token = Default
        THEN IF sum > U64_MAX /\ overflow_checks THEN Fail(w1, "Panic")
             ELSE IF ~(w1.lamports[user] >= sum % (U64_MAX + 1)) THEN Fail(w1, "InsufficientBalance")
             ELSE IF n.err # "Ok" THEN Fail(w1, n.err)
             ELSE Success([w1 EXCEPT !.lamports = n.lamports], <<gas_event, funds_event>>)
        ELSE IF ~(w1.lamports[user] >= gas_amount) THEN Fail(w1, "InsufficientBalance")
             ELSE IF ~Contains(w1.whitelist, bridge_token) THEN Fail(w1, "TokenNotWhitelisted")
             ELSE IF t.err # "Ok" THEN Fail(w1, t.err)
             ELSE Success([w1 EXCEPT !.token_amount = t.token_amount], <<gas_event, funds_event>>)

\* add_funds that reports the deposit without transferring it
add_funds_no_transfer(w, user, amount, transaction_hash, price_update) ==
    LET price_data == calculate_sol_price(price_update)
    IN  IF ~w.config.init THEN Fail(w, "AccountNotInitialized")
        ELSE IF w.config.paused THEN Fail(w, "PausedError")
        ELSE IF ~(amount > 0) THEN Fail(w, "InvalidAmount")
        ELSE IF price_data = <<>> THEN Fail(w, "InvalidPrice")
        ELSE Success(w, << [event |-> "FundsAddedEvent", user |-> user, sol_amount |-> amount, usd_equivalent |-> lamports_to_usd_amount_i128(amount, price_data[1]), usd_exponent |-> price_data[1].exponent, transaction_hash |-> transaction_hash] >>)

\* AddFunds accounts + add_funds (legacy route)
add_funds(w, user, amount, transaction_hash, price_update) ==
    LET price_data == calculate_sol_price(price_update)
        t == SystemTransfer(w.lamports, user, VAULT, amount)
    IN  IF ~w.config.init THEN Fail(w, "AccountNotInitialized")
        ELSE IF w.config.paused THEN Fail(w, "PausedError")
        ELSE IF ~(amount > 0) THEN Fail(w, "InvalidAmount")
        ELSE IF price_data = <<>> THEN Fail(w, "InvalidPrice")
        ELSE IF t.err # "Ok" THEN Fail(w, t.err)
        ELSE Success([w EXCEPT !.lamports = t.lamports],
                     << [event |-> "FundsAddedEvent", user |-> user, sol_amount |-> amount, usd_equivalent |-> lamports_to_usd_amount_i128(amount, price_data[1]), usd_exponent |-> price_data[1].exponent, transaction_hash |-> transaction_hash] >>)

----------------------------------------------------------------------------
(* Transactions *)

\* no instruction result is outstanding
NoTx == [op |-> "none"]
NoMark == [op |-> "none"]

\* the fields the off-chain signer hashes for one authorization
Msg(id, chain_id, nonce, amount, additional) == [id |-> id, chain_id |-> chain_id, nonce |-> nonce, amount |-> amount, additional |-> additional]

\* the 32-byte digest of a message, laid out as validate_message lays it out
Digest(m) == hash(BuildMessage(m.id, m.chain_id, m.nonce, <<m.amount>>, <<to_bytes(m.additional)>>))

\* the message_hash and signature arguments a transaction carries
MessageHashOf(c) == Digest(c.hashed)
SignatureOf(c) == Sign(c.sig_signer, Digest(c.sig_over))

\* the other key of the same kind, to build a message that names a different account
OtherKey(k) == IF k \in Mints THEN CHOOSE m \in Mints : m # k ELSE CHOOSE r \in Recipients : r # k

\* messages one field away from the message m: another instruction id, another key
Variants(m) ==
    {[m EXCEPT !.id = i] : i \in InstructionIds \ {m.id}} \cup {[m EXCEPT !.additional = OtherKey(@)]}

\* (message hash, signature, recovery id) triples a submitter may attach to a call that
\* makes the instruction rebuild Msg(id, tss.chain_id, nonce, amount, additional): the
\* TSS key's own, and triples that are off in one respect (signing key, chain id,
\* a field of the hashed message, the message signed, the recovery id), and one whose
\* hash is of another message than the rebuilt one and whose signature does not fit it
Credentials(tss, id, nonce, amount, additional) ==
    LET canon == Msg(id, tss.chain_id, nonce, amount, additional)
        key == tss.tss_eth_address
    IN  {[hashed |-> canon, sig_over |-> canon, sig_signer |-> a, recovery_id |-> 0] : a \in EthAddrs \cup {key}}
        \cup {[hashed |-> [canon EXCEPT !.chain_id = ch], sig_over |-> [canon EXCEPT !.chain_id = ch], sig_signer |-> key, recovery_id |-> 0] : ch \in ChainIds}
        \cup {[hashed |-> x, sig_over |-> x, sig_signer |-> key, recovery_id |-> 0] : x \in Variants(canon)}
        \cup {[hashed |-> canon, sig_over |-> x, sig_signer |-> key, recovery_id |-> 0] : x \in Variants(canon)}
        \cup {[hashed |-> canon, sig_over |-> canon, sig_signer |-> key, recovery_id |-> 1]}
        \cup {[hashed |-> [canon EXCEPT !.additional = OtherKey(@)], sig_over |-> canon, sig_signer |-> key, recovery_id |-> 0]}

\* what the TSS key itself produces: hash of and signature over the same message
Signed(id, nonce, amount, additional) ==
    {[hashed |-> Msg(id, ch, nonce, amount, additional), sig_over |-> Msg(id, ch, nonce, amount, additional), sig_signer |-> a, recovery_id |-> 0] : ch \in ChainIds, a \in EthAddrs}

\* the (nonce, signature, message hash) tuple of a TSS-gated call
TupleOf(c) == [nonce |-> c.nonce, hashed |-> c.hashed, sig_over |-> c.sig_over, sig_signer |-> c.sig_signer, recovery_id |-> c.recovery_id]

TssCall(op, amount, nonce, recipient, fund_recipient, token_mint, dest_owner, cred) ==
    [op |-> op, amount |-> amount, nonce |-> nonce, recipient |-> recipient, fund_recipient |-> fund_recipient, token_mint |-> token_mint, dest_owner |-> dest_owner, hashed |-> cred.hashed, sig_over |-> cred.sig_over, sig_signer |-> cred.sig_signer, recovery_id |-> cred.recovery_id]

\* a host that keeps the account writes of a failed instruction
Commit_keeping_writes(call, r) ==
    /\ tx' = [op |-> call.op, call |-> call, err |-> r.err, verify |-> r.verify, events |-> IF r.err = "Ok" THEN r.events ELSE <<>>, pre |-> World]
    /\ config' = r.w.config
    /\ tss_pda' = r.w.tss_pda
    /\ whitelist' = r.w.whitelist
    /\ lamports' = r.w.lamports
    /\ token_amount' = r.w.token_amount

\* The host commits the accounts iff the handler returned Ok, and reports the result;
\* `pre` keeps the accounts as they were when the instruction started.
Commit(call, r) ==
    /\ tx' = [op |-> call.op, call |-> call, err |-> r.err, verify |-> r.verify, events |-> IF r.err = "Ok" THEN r.events ELSE <<>>, pre |-> World]
    /\ IF r.err = "Ok"
       THEN /\ config' = r.w.config
            /\ tss_pda' = r.w.tss_pda
            /\ whitelist' = r.w.whitelist
            /\ lamports' = r.w.lamports
            /\ token_amount' = r.w.token_amount
       ELSE UNCHANGED <<config, tss_pda, whitelist, lamports, token_amount>>

Idle == tx.op = "none"

\* one transaction per TSS-gated instruction; token accounts are the vault's and the
\* destination owner's account for the mint
CallWithdrawTss(a, n, r, cred) ==
    LET c == TssCall("withdraw_tss", a, n, r, Default, Default, Default, cred)
    IN  Commit(c, withdraw_tss(World, r, a, SignatureOf(c), c.recovery_id, MessageHashOf(c), n))

CallWithdrawSplTokenTss(a, n, m, o, cred) ==
    LET c == TssCall("withdraw_spl_token_tss", a, n, Default, Default, m, o, cred)
    IN  Commit(c, withdraw_spl_token_tss(World, m, <<VAULT, m>>, <<o, m>>, a, SignatureOf(c), c.recovery_id, MessageHashOf(c), n))

CallRevertWithdraw(a, n, r, f, cred) ==
    LET c == TssCall("revert_withdraw", a, n, r, f, Default, Default, cred)
    IN  Commit(c, revert_withdraw(World, r, a, [fund_recipient |-> f], SignatureOf(c), c.recovery_id, MessageHashOf(c), n))

CallRevertWithdrawSplToken(a, n, m, o, f, cred) ==
    LET c == TssCall("revert_withdraw_spl_token", a, n, Default, f, m, o, cred)
    IN  Commit(c, revert_withdraw_spl_token(World, m, <<VAULT, m>>, <<o, m>>, a, [fund_recipient |-> f], SignatureOf(c), c.recovery_id, MessageHashOf(c), n))

\* The program entry: the instruction `c` run on the accounts `w`. Deposits are made
\* with the vault's MINT_A token account as gateway_token_account.
pushsolanagateway(w, c) ==
    CASE c.op = "withdraw_tss" -> withdraw_tss(w, c.recipient, c.amount, SignatureOf(c), c.recovery_id, MessageHashOf(c), c.nonce)
      [] c.op = "withdraw_spl_token_tss" -> withdraw_spl_token_tss(w, c.token_mint, <<VAULT, c.token_mint>>, <<c.dest_owner, c.token_mint>>, c.amount, SignatureOf(c), c.recovery_id, MessageHashOf(c), c.nonce)
      [] c.op = "revert_withdraw" -> revert_withdraw(w, c.recipient, c.amount, [fund_recipient |-> c.fund_recipient], SignatureOf(c), c.recovery_id, MessageHashOf(c), c.nonce)
      [] c.op = "revert_withdraw_spl_token" -> revert_withdraw_spl_token(w, c.token_mint, <<VAULT, c.token_mint>>, <<c.dest_owner, c.token_mint>>, c.amount, [fund_recipient |-> c.fund_recipient], SignatureOf(c), c.recovery_id, MessageHashOf(c), c.nonce)
      [] c.op = "init_tss" -> init_tss(w, c.signer, c.tss_eth_address, c.chain_id)
      [] c.op = "update_tss" -> update_tss(w, c.signer, c.tss_eth_address, c.chain_id)
      [] c.op = "reset_nonce" -> reset_nonce(w, c.signer, c.new_nonce)
      [] c.op = "initialize" -> initialize(w, c.admin, c.pauser, c.tss, c.min_cap_usd, c.max_cap_usd, c.pyth_price_feed)
      [] c.op = "pause" -> pause(w, c.signer)
      [] c.op = "unpause" -> unpause(w, c.signer)
      [] c.op = "set_tss_address" -> set_tss_address(w, c.signer, c.new_tss)
      [] c.op = "set_caps_usd" -> set_caps_usd(w, c.signer, c.min_cap_usd, c.max_cap_usd)
      [] c.op = "whitelist_token" -> whitelist_token(w, c.signer, c.token)
      [] c.op = "remove_whitelist_token" -> remove_whitelist_token(w, c.signer, c.token)
      [] c.op = "set_pyth_price_feed" -> set_pyth_price_feed(w, c.signer, c.price_feed)
      [] c.op = "set_pyth_confidence_threshold" -> set_pyth_confidence_threshold(w, c.signer, c.threshold)
      [] c.op = "send_tx_with_gas" -> send_tx_with_gas(w, c.signer, c.payload, [fund_recipient |-> c.fund_recipient], c.amount, c.price_update)
      [] c.op = "send_funds" -> send_funds(w, c.signer, c.recipient, c.bridge_token, c.amount, [fund_recipient |-> c.fund_recipient], c.user_token_account, <<VAULT, MINT_A>>, c.bridge_token_account)
      [] c.op = "send_funds_native" -> send_funds_native(w, c.signer, c.recipient, c.amount, [fund_recipient |-> c.fund_recipient])
      [] c.op = "send_tx_with_funds" -> send_tx_with_funds(w, c.signer, c.bridge_token, c.amount, c.payload, [fund_recipient |-> c.fund_recipient], c.gas_amount, c.price_update, <<c.signer, MINT_A>>, <<VAULT, MINT_A>>, MINT_A, c.overflow_checks)
      [] c.op = "add_funds" -> add_funds(w, c.signer, c.amount, <<>>, c.price_update)

----------------------------------------------------------------------------
(* Actions: one per instruction. Native withdrawals pay any of Recipients; token
   withdrawals and reverts are submitted with ADMIN's accounts, the revert's
   fund_recipient being ADMIN, somebody else or the zero key. *)

WithdrawTss ==
    /\ Idle
    /\ \E a \in Amounts, n \in Nonces, r \in Recipients :
         \E cred \in Credentials(tss_pda, 1, n, a, r) : CallWithdrawTss(a, n, r, cred)
    /\ UNCHANGED marked

WithdrawSplTokenTss ==
    /\ Idle
    /\ \E a \in Amounts, n \in Nonces, m \in Mints, o \in {ADMIN} :
         \E cred \in Credentials(tss_pda, 2, n, a, m) : CallWithdrawSplTokenTss(a, n, m, o, cred)
    /\ UNCHANGED marked

RevertWithdraw ==
    /\ Idle
    /\ \E a \in Amounts, n \in Nonces, r \in {ADMIN}, f \in Recipients \cup {Default} :
         \E cred \in Credentials(tss_pda, 3, n, a, f) : CallRevertWithdraw(a, n, r, f, cred)
    /\ UNCHANGED marked

RevertWithdrawSplToken ==
    /\ Idle
    /\ \E a \in Amounts, n \in Nonces, m \in Mints, o \in {ADMIN}, f \in Recipients \cup {Default} :
         \E cred \in Credentials(tss_pda, 4, n, a, m) : CallRevertWithdrawSplToken(a, n, m, o, f, cred)
    /\ UNCHANGED marked

InitTss ==
    /\ Idle
    /\ \E s \in {OUTSIDER}, e \in EthAddrs, ch \in ChainIds :
         Commit([op |-> "init_tss", signer |-> s, tss_eth_address |-> e, chain_id |-> ch], init_tss(World, s, e, ch))
    /\ UNCHANGED marked

UpdateTss ==
    /\ Idle
    /\ \E s \in Signers, e \in EthAddrs, ch \in ChainIds :
         Commit([op |-> "update_tss", signer |-> s, tss_eth_address |-> e, chain_id |-> ch], update_tss(World, s, e, ch))
    /\ UNCHANGED marked

\* a committed reset is noted on the remembered tuple, if there is one
ResetNonce ==
    /\ Idle
    /\ \E s \in Signers, n \in Nonces :
         LET r == reset_nonce(World, s, n)
         IN  /\ Commit([op |-> "reset_nonce", signer |-> s, new_nonce |-> n], r)
             /\ marked' = IF r.err = "Ok" /\ marked.op # "none" THEN [marked EXCEPT !.reset = TRUE] ELSE marked

SetTssAddress ==
    /\ Idle
    /\ \E s \in Signers, k \in {Default, TSS_KEY_2} :
         Commit([op |-> "set_tss_address", signer |-> s, new_tss |-> k], set_tss_address(World, s, k))
    /\ UNCHANGED marked

Pause ==
    /\ Idle
    /\ \E s \in Signers : Commit([op |-> "pause", signer |-> s], pause(World, s))
    /\ UNCHANGED marked

Unpause ==
    /\ Idle
    /\ \E s \in Signers : Commit([op |-> "unpause", signer |-> s], unpause(World, s))
    /\ UNCHANGED marked

\* the submitter reads the result of its transaction
Observe ==
    /\ ~Idle
    /\ tx' = NoTx
    /\ UNCHANGED <<config, tss_pda, whitelist, lamports, token_amount, marked>>

\* the submitter reads the result of a successful TSS-gated call and keeps its
\* (nonce, signature, message hash) tuple
Remember ==
    /\ tx.op \in {"withdraw_tss", "withdraw_spl_token_tss", "revert_withdraw", "revert_withdraw_spl_token"}
    /\ tx.err = "Ok"
    /\ marked.op = "none"
    /\ marked' = [op |-> "consumed", tuple |-> TupleOf(tx.call), reset |-> FALSE]
    /\ tx' = NoTx
    /\ UNCHANGED <<config, tss_pda, whitelist, lamports, token_amount>>

\* the same instructions, paying ADMIN and carrying credentials made by a signing key
SignedWithdrawTss ==
    /\ Idle
    /\ \E a \in Amounts \ {0}, n \in Nonces, r \in {ADMIN} :
         \E cred \in Signed(1, n, a, r) : CallWithdrawTss(a, n, r, cred)
    /\ UNCHANGED marked

SignedWithdrawSplTokenTss ==
    /\ Idle
    /\ \E a \in Amounts \ {0}, n \in Nonces, o \in {ADMIN} :
         \E cred \in Signed(2, n, a, MINT_A) : CallWithdrawSplTokenTss(a, n, MINT_A, o, cred)
    /\ UNCHANGED marked

SignedRevertWithdraw ==
    /\ Idle
    /\ \E a \in Amounts \ {0}, n \in Nonces, r \in {ADMIN} :
         \E cred \in Signed(3, n, a, r) : CallRevertWithdraw(a, n, r, r, cred)
    /\ UNCHANGED marked

SignedRevertWithdrawSplToken ==
    /\ Idle
    /\ \E a \in Amounts \ {0}, n \in Nonces, o \in {ADMIN} :
         \E cred \in Signed(4, n, a, MINT_A) : CallRevertWithdrawSplToken(a, n, MINT_A, o, o, cred)
    /\ UNCHANGED marked

\* administrative instructions, signed by the admin, the pauser or an outsider
SetCapsUsd ==
    /\ Idle
    /\ \E s \in Signers, caps \in {<<CAP_MIN, CAP_MAX>>, <<CAP_MAX, CAP_MAX>>, <<CAP_MAX, CAP_MIN>>} :
         Commit([op |-> "set_caps_usd", signer |-> s, min_cap_usd |-> caps[1], max_cap_usd |-> caps[2]], set_caps_usd(World, s, caps[1], caps[2]))
    /\ UNCHANGED marked

WhitelistToken ==
    /\ Idle
    /\ \E s \in Signers, t \in {Default, MINT_A, MINT_B} :
         Commit([op |-> "whitelist_token", signer |-> s, token |-> t], whitelist_token(World, s, t))
    /\ UNCHANGED marked

RemoveWhitelistToken ==
    /\ Idle
    /\ \E s \in Signers, t \in {Default, MINT_B} :
         Commit([op |-> "remove_whitelist_token", signer |-> s, token |-> t], remove_whitelist_token(World, s, t))
    /\ UNCHANGED marked

\* remove_whitelist_token for any token, signed by the admin or by the pauser
RemoveAnyWhitelistToken ==
    /\ Idle
    /\ \E s \in {ADMIN, PAUSER}, t \in {Default, MINT_A, MINT_B} :
         Commit([op |-> "remove_whitelist_token", signer |-> s, token |-> t], remove_whitelist_token(World, s, t))
    /\ UNCHANGED marked

SetPythPriceFeed ==
    /\ Idle
    /\ \E s \in Signers, k \in {Default, PRICE_FEED} :
         Commit([op |-> "set_pyth_price_feed", signer |-> s, price_feed |-> k], set_pyth_price_feed(World, s, k))
    /\ UNCHANGED marked

SetPythConfidenceThreshold ==
    /\ Idle
    /\ \E s \in Signers, th \in {0, 1000000} :
         Commit([op |-> "set_pyth_confidence_threshold", signer |-> s, threshold |-> th], set_pyth_confidence_threshold(World, s, th))
    /\ UNCHANGED marked

\* deposits by OUTSIDER: a well-formed call and calls off in one argument or account
GoodPriceUpdate == [feed_matches |-> TRUE, price |-> 500000000, exponent |-> -8, conf |-> 1000, publish_time |-> 1]

\* UniversalPayload values: the all-zero payload and one with every field set
EMPTY_PAYLOAD ==
    [to |-> Default, value |-> 0, data |-> <<>>, gas_limit |-> 0, max_fee_per_gas |-> 0,
     max_priority_fee_per_gas |-> 0, nonce |-> 0, deadline |-> 0, v_type |-> 0]

PAYLOAD ==
    [to |-> ADMIN, value |-> 1, data |-> <<7, 7>>, gas_limit |-> 2, max_fee_per_gas |-> 3,
     max_priority_fee_per_gas |-> 4, nonce |-> 5, deadline |-> 6, v_type |-> 1]

SendTxWithGasInputs ==
    {[fund_recipient |-> OUTSIDER, price_update |-> pu, payload |-> EMPTY_PAYLOAD] : pu \in PriceUpdates}
    \cup {[fund_recipient |-> Default, price_update |-> GoodPriceUpdate, payload |-> EMPTY_PAYLOAD],
          [fund_recipient |-> OUTSIDER, price_update |-> GoodPriceUpdate, payload |-> PAYLOAD]}

SendTxWithGas ==
    /\ Idle
    /\ \E a \in Amounts, in \in SendTxWithGasInputs :
         Commit([op |-> "send_tx_with_gas", signer |-> OUTSIDER, amount |-> a, fund_recipient |-> in.fund_recipient, price_update |-> in.price_update, payload |-> in.payload],
                send_tx_with_gas(World, OUTSIDER, in.payload, [fund_recipient |-> in.fund_recipient], a, in.price_update))
    /\ UNCHANGED marked

GoodSendFunds == [recipient |-> ADMIN, fund_recipient |-> OUTSIDER, bridge_token |-> MINT_A, user_token_account |-> <<OUTSIDER, MINT_A>>, bridge_token_account |-> MINT_A]

SendFundsInputs ==
    {GoodSendFunds,
     [GoodSendFunds EXCEPT !.recipient = Default],
     [GoodSendFunds EXCEPT !.fund_recipient = Default],
     [GoodSendFunds EXCEPT !.bridge_token = Default],
     [GoodSendFunds EXCEPT !.bridge_token = MINT_B],
     [GoodSendFunds EXCEPT !.user_token_account = <<ADMIN, MINT_A>>],
     [GoodSendFunds EXCEPT !.bridge_token_account = MINT_B]}

SendFunds ==
    /\ Idle
    /\ \E a \in Amounts, in \in SendFundsInputs :
         Commit([op |-> "send_funds", signer |-> OUTSIDER, amount |-> a, recipient |-> in.recipient, fund_recipient |-> in.fund_recipient, bridge_token |-> in.bridge_token, user_token_account |-> in.user_token_account, bridge_token_account |-> in.bridge_token_account],
                send_funds(World, OUTSIDER, in.recipient, in.bridge_token, a, [fund_recipient |-> in.fund_recipient], in.user_token_account, <<VAULT, MINT_A>>, in.bridge_token_account))
    /\ UNCHANGED marked

SendFundsNative ==
    /\ Idle
    /\ \E a \in Amounts, in \in {<<ADMIN, OUTSIDER>>, <<Default, OUTSIDER>>, <<ADMIN, Default>>} :
         Commit([op |-> "send_funds_native", signer |-> OUTSIDER, amount |-> a, recipient |-> in[1], fund_recipient |-> in[2]],
                send_funds_native(World, OUTSIDER, in[1], a, [fund_recipient |-> in[2]]))
    /\ UNCHANGED marked

GoodSendTxWithFunds == [fund_recipient |-> OUTSIDER, bridge_token |-> Default, price_update |-> GoodPriceUpdate, payload |-> EMPTY_PAYLOAD]

SendTxWithFundsInputs ==
    {GoodSendTxWithFunds,
     [GoodSendTxWithFunds EXCEPT !.bridge_token = MINT_A],
     [GoodSendTxWithFunds EXCEPT !.bridge_token = MINT_B],
     [GoodSendTxWithFunds EXCEPT !.fund_recipient = Default],
     [GoodSendTxWithFunds EXCEPT !.fund_recipient = ADMIN, !.payload = PAYLOAD],
     [GoodSendTxWithFunds EXCEPT !.price_update.price = 0],
     [GoodSendTxWithFunds EXCEPT !.price_update.exponent = -9]}

SendTxWithFunds ==
    /\ Idle
    /\ \E a \in Amounts, g \in Amounts, in \in SendTxWithFundsInputs :
         \E oc \in (IF a + g > U64_MAX THEN BOOLEAN ELSE {TRUE}) :
           Commit([op |-> "send_tx_with_funds", signer |-> OUTSIDER, amount |-> a, gas_amount |-> g, fund_recipient |-> in.fund_recipient, bridge_token |-> in.bridge_token, price_update |-> in.price_update, payload |-> in.payload, overflow_checks |-> oc],
                  send_tx_with_funds(World, OUTSIDER, in.bridge_token, a, in.payload, [fund_recipient |-> in.fund_recipient], g, in.price_update, <<OUTSIDER, MINT_A>>, <<VAULT, MINT_A>>, MINT_A, oc))
    /\ UNCHANGED marked

AddFunds ==
    /\ Idle
    /\ \E a \in Amounts, pu \in PriceUpdates :
         Commit([op |-> "add_funds", signer |-> OUTSIDER, amount |-> a, price_update |-> pu], add_funds(World, OUTSIDER, a, <<>>, pu))
    /\ UNCHANGED marked

\* initialize, sent by anybody: a well-formed call and calls off in one argument
GoodInitialize == [op |-> "initialize", signer |-> OUTSIDER, admin |-> ADMIN, pauser |-> PAUSER, tss |-> TSS_KEY, min_cap_usd |-> CAP_MIN, max_cap_usd |-> CAP_MAX, pyth_price_feed |-> PRICE_FEED]

InitializeInputs ==
    {GoodInitialize,
     [GoodInitialize EXCEPT !.admin = Default],
     [GoodInitialize EXCEPT !.pauser = Default],
     [GoodInitialize EXCEPT !.tss = Default],
     [GoodInitialize EXCEPT !.pyth_price_feed = Default],
     [GoodInitialize EXCEPT !.min_cap_usd = CAP_MAX],
     [GoodInitialize EXCEPT !.min_cap_usd = CAP_MAX, !.max_cap_usd = CAP_MIN],
     [GoodInitialize EXCEPT !.min_cap_usd = CAP_MAX, !.max_cap_usd = CAP_MIN, !.admin = Default]}

Initialize ==
    /\ Idle
    /\ \E c \in InitializeInputs : Commit(c, pushsolanagateway(World, c))
    /\ UNCHANGED marked

----------------------------------------------------------------------------
(* Specification *)

Init ==
    /\ config = [init |-> TRUE, admin |-> ADMIN, tss_address |-> TSS_KEY, pauser |-> PAUSER, min_cap_universal_tx_usd |-> CAP_MIN, max_cap_universal_tx_usd |-> CAP_MAX, paused |-> FALSE, pyth_price_feed |-> PRICE_FEED, pyth_confidence_threshold |-> 1000000]
    /\ tss_pda = [init |-> FALSE, tss_eth_address |-> 0, chain_id |-> 0, nonce |-> 0, authority |-> Default]
    /\ whitelist = <<MINT_A>>
    /\ lamports = [k \in Signers \cup {VAULT} |-> IF k = VAULT THEN VaultInit ELSE IF k = OUTSIDER THEN UserInit ELSE 0]
    /\ token_amount = [acct \in (Signers \cup {VAULT}) \X Mints |-> IF acct = <<VAULT, MINT_A>> THEN VaultInit ELSE IF acct = <<OUTSIDER, MINT_A>> THEN UserInit ELSE 0]
    /\ tx = NoTx
    /\ marked = NoMark

Next ==
    \/ WithdrawTss
    \/ WithdrawSplTokenTss
    \/ RevertWithdraw
    \/ RevertWithdrawSplToken
    \/ InitTss
    \/ UpdateTss
    \/ ResetNonce
    \/ SetTssAddress
    \/ Pause
    \/ Unpause
    \/ Observe

Spec == Init /\ [][Next]_vars

\* replays: signed calls, with one consumed tuple remembered
NextReplay ==
    \/ SignedWithdrawTss
    \/ SignedWithdrawSplTokenTss
    \/ SignedRevertWithdraw
    \/ SignedRevertWithdrawSplToken
    \/ InitTss
    \/ UpdateTss
    \/ ResetNonce
    \/ Pause
    \/ Unpause
    \/ Observe
    \/ Remember

SpecReplay == Init /\ [][NextReplay]_vars

\* the whole gateway, TSS-gated calls carrying signed credentials: every instruction
\* but set_tss_address, which writes config.tss_address, a field no handler reads
\* (Next and NextInit exercise it)
NextGateway ==
    \/ SignedWithdrawTss
    \/ SignedWithdrawSplTokenTss
    \/ SignedRevertWithdraw
    \/ SignedRevertWithdrawSplToken
    \/ InitTss
    \/ UpdateTss
    \/ ResetNonce
    \/ SetCapsUsd
    \/ WhitelistToken
    \/ RemoveWhitelistToken
    \/ SetPythPriceFeed
    \/ SetPythConfidenceThreshold
    \/ Pause
    \/ Unpause
    \/ SendTxWithGas
    \/ SendFunds
    \/ SendFundsNative
    \/ SendTxWithFunds
    \/ AddFunds
    \/ Observe

SpecGateway == Init /\ [][NextGateway]_vars

\* from deployment: the config account does not exist until initialize creates it
InitFresh ==
    /\ config = NoConfig
    /\ tss_pda = [init |-> FALSE, tss_eth_address |-> 0, chain_id |-> 0, nonce |-> 0, authority |-> Default]
    /\ whitelist = <<>>
    /\ lamports = [k \in Signers \cup {VAULT} |-> IF k = OUTSIDER THEN UserInit ELSE 0]
    /\ token_amount = [acct \in (Signers \cup {VAULT}) \X Mints |-> 0]
    /\ tx = NoTx
    /\ marked = NoMark

NextInit ==
    \/ Initialize
    \/ SetTssAddress
    \/ SetCapsUsd
    \/ WhitelistToken
    \/ RemoveWhitelistToken
    \/ SetPythPriceFeed
    \/ SetPythConfidenceThreshold
    \/ Pause
    \/ Unpause
    \/ SendTxWithGas
    \/ Observe

SpecInit == InitFresh /\ [][NextInit]_vars

\* the whitelist and what it gates: tokens come and go while token deposits and
\* token withdrawals are submitted
NextWhitelist ==
    \/ WhitelistToken
    \/ RemoveAnyWhitelistToken
    \/ SendFunds
    \/ SendTxWithFunds
    \/ SignedWithdrawSplTokenTss
    \/ SignedRevertWithdrawSplToken
    \/ InitTss
    \/ Pause
    \/ Unpause
    \/ Observe

SpecWhitelist == Init /\ [][NextWhitelist]_vars

\* the deposit routes: an initialized gateway and a depositor whose balance, after the
\* gas transfer of send_tx_with_funds, still covers bridge_amount + gas_amount
InitDeposit ==
    /\ config = [init |-> TRUE, admin |-> ADMIN, tss_address |-> TSS_KEY, pauser |-> PAUSER, min_cap_universal_tx_usd |-> CAP_MIN, max_cap_universal_tx_usd |-> CAP_MAX, paused |-> FALSE, pyth_price_feed |-> PRICE_FEED, pyth_confidence_threshold |-> 1000000]
    /\ tss_pda = [init |-> FALSE, tss_eth_address |-> 0, chain_id |-> 0, nonce |-> 0, authority |-> Default]
    /\ whitelist = <<MINT_A>>
    /\ lamports = [k \in Signers \cup {VAULT} |-> IF k = OUTSIDER THEN 3 * MaxAmount ELSE 0]
    /\ token_amount = [acct \in (Signers \cup {VAULT}) \X Mints |-> IF acct = <<OUTSIDER, MINT_A>> THEN UserInit ELSE 0]
    /\ tx = NoTx
    /\ marked = NoMark

NextDeposit ==
    \/ SendTxWithGas
    \/ SendFunds
    \/ SendFundsNative
    \/ SendTxWithFunds
    \/ AddFunds
    \/ SetCapsUsd
    \/ WhitelistToken
    \/ RemoveWhitelistToken
    \/ Pause
    \/ Unpause
    \/ Observe

SpecDeposit == InitDeposit /\ [][NextDeposit]_vars

\* custody of native SOL: deposits fill the vault, withdrawals signed by the TSS key
\* empty it
NextCustody ==
    \/ SendTxWithGas
    \/ SendFunds
    \/ SendFundsNative
    \/ SendTxWithFunds
    \/ AddFunds
    \/ InitTss
    \/ SignedWithdrawTss
    \/ SignedRevertWithdraw
    \/ SignedWithdrawSplTokenTss
    \/ Pause
    \/ Unpause
    \/ Observe

SpecCustody == InitDeposit /\ [][NextCustody]_vars

----------------------------------------------------------------------------
(* check_usd_caps_with_pyth applied to lamport amounts, prices and caps *)

\* lamport amounts: none, 0.01, 0.03 and 0.1 SOL
CapLamports == {0, 10000000, 30000000, 100000000}

\* PriceData values: 0.15, 1.50, 15.00 and 150.00 USD per SOL written with the
\* exponents -6 to -9 (an exponent of -6 means a price in millionths of a dollar)
CapPriceDatas ==
    {[price |-> 150000, exponent |-> -6], [price |-> 1500000, exponent |-> -7], [price |-> 15000000, exponent |-> -8], [price |-> 150000000, exponent |-> -9],
     [price |-> 1500000, exponent |-> -6], [price |-> 15000000, exponent |-> -7], [price |-> 150000000, exponent |-> -8], [price |-> 1500000000, exponent |-> -9],
     [price |-> 15000000, exponent |-> -6], [price |-> 150000000, exponent |-> -7], [price |-> 1500000000, exponent |-> -8],
     [price |-> 150000000, exponent |-> -6], [price |-> 1500000000, exponent |-> -7]}

\* Config caps: 1 to 10 USD, 0.1 to 1.5 USD, 0.15 to 0.45 USD, and the caps of Init
CapPairs == {<<100000000, 1000000000>>, <<10000000, 150000000>>, <<15000000, 45000000>>, <<CAP_MIN, CAP_MAX>>}

InitCaps ==
    /\ \E caps \in CapPairs :
         config = [init |-> TRUE, admin |-> ADMIN, tss_address |-> TSS_KEY, pauser |-> PAUSER, min_cap_universal_tx_usd |-> caps[1], max_cap_universal_tx_usd |-> caps[2], paused |-> FALSE, pyth_price_feed |-> PRICE_FEED, pyth_confidence_threshold |-> 1000000]
    /\ tss_pda = [init |-> FALSE, tss_eth_address |-> 0, chain_id |-> 0, nonce |-> 0, authority |-> Default]
    /\ whitelist = <<MINT_A>>
    /\ lamports = [k \in Signers \cup {VAULT} |-> 0]
    /\ token_amount = [acct \in (Signers \cup {VAULT}) \X Mints |-> 0]
    /\ tx = NoTx
    /\ marked = NoMark

\* one application of check_usd_caps_with_pyth to the stored caps
CheckUsdCapsWithPyth ==
    /\ Idle
    /\ \E lam \in CapLamports, price_data \in CapPriceDatas :
         tx' = [op |-> "check_usd_caps_with_pyth", call |-> [lamports |-> lam, price_data |-> price_data],
                err |-> check_usd_caps_with_pyth(config, lam, price_data), verify |-> "NotCalled", events |-> <<>>, pre |-> World]
    /\ UNCHANGED <<config, tss_pda, whitelist, lamports, token_amount, marked>>

NextCaps ==
    \/ CheckUsdCapsWithPyth
    \/ Observe

SpecCaps == InitCaps /\ [][NextCaps]_vars

----------------------------------------------------------------------------
(* Filling the whitelist account *)

\* SPL mints to fill the whitelist with, in the order they are added
MintNo(i) == 100 + i

\* the first mint of that order the list does not hold
NextMint == MintNo(CHOOSE i \in 1..(Len(whitelist) + 1) : ~Contains(whitelist, MintNo(i)) /\ \A j \in 1..(i - 1) : Contains(whitelist, MintNo(j)))

InitCapacity ==
    /\ config = [init |-> TRUE, admin |-> ADMIN, tss_address |-> TSS_KEY, pauser |-> PAUSER, min_cap_universal_tx_usd |-> CAP_MIN, max_cap_universal_tx_usd |-> CAP_MAX, paused |-> FALSE, pyth_price_feed |-> PRICE_FEED, pyth_confidence_threshold |-> 1000000]
    /\ tss_pda = [init |-> FALSE, tss_eth_address |-> 0, chain_id |-> 0, nonce |-> 0, authority |-> Default]
    /\ whitelist = <<>>
    /\ lamports = [k \in Signers \cup {VAULT} |-> 0]
    /\ token_amount = [acct \in (Signers \cup {VAULT}) \X Mints |-> 0]
    /\ tx = NoTx
    /\ marked = NoMark

\* whitelist_token for the next mint, the zero key or a mint the list holds
WhitelistNextToken ==
    /\ Idle
    /\ \E s \in {ADMIN, OUTSIDER}, t \in {NextMint, Default} \cup (IF whitelist = <<>> THEN {} ELSE {whitelist[1]}) :
         Commit([op |-> "whitelist_token", signer |-> s, token |-> t], whitelist_token(World, s, t))
    /\ UNCHANGED marked

\* remove_whitelist_token for the mint added last or a mint the list does not hold
RemoveLastToken ==
    /\ Idle
    /\ \E s \in {ADMIN}, t \in {NextMint} \cup (IF whitelist = <<>> THEN {} ELSE {whitelist[Len(whitelist)]}) :
         Commit([op |-> "remove_whitelist_token", signer |-> s, token |-> t], remove_whitelist_token(World, s, t))
    /\ UNCHANGED marked

NextCapacity ==
    \/ WhitelistNextToken
    \/ RemoveLastToken
    \/ Observe

SpecCapacity == InitCapacity /\ [][NextCapacity]_vars

----------------------------------------------------------------------------
(* What the last executed instruction was and did *)

TssOps == {"withdraw_tss", "withdraw_spl_token_tss", "revert_withdraw", "revert_withdraw_spl_token"}
TokenOps == {"withdraw_spl_token_tss", "revert_withdraw_spl_token"}
RevertOps == {"revert_withdraw", "revert_withdraw_spl_token"}
DepositOps == {"send_tx_with_gas", "send_funds", "send_funds_native", "send_tx_with_funds"}

\* the instruction id literal each handler passes to validate_message
InstructionIdOf(op) ==
    CASE op = "withdraw_tss" -> 1
      [] op = "withdraw_spl_token_tss" -> 2
      [] op = "revert_withdraw" -> 3
      [] op = "revert_withdraw_spl_token" -> 4

\* the key each handler passes as additional_data
AdditionalOf(c) ==
    CASE c.op = "withdraw_tss" -> c.recipient
      [] c.op = "revert_withdraw" -> c.fund_recipient
      [] c.op \in TokenOps -> c.token_mint

Executed == tx.op # "none"
TssExecuted == tx.op \in TssOps
Succeeded == Executed /\ tx.err = "Ok"

\* every account is as it was before the instruction
StateUnchanged == World = tx.pre

\* the checks every TSS-gated handler makes before it calls validate_message
ReachesVerification ==
    /\ tx.pre.config.init /\ tx.pre.tss_pda.init
    /\ ~tx.pre.config.paused
    /\ tx.op \in TokenOps => Contains(tx.pre.whitelist, tx.call.token_mint)
    /\ tx.call.amount > 0
    /\ tx.op \in RevertOps => tx.call.fund_recipient # Default

\* the message the handler rebuilds for this call in the state it ran in
Canonical == Msg(InstructionIdOf(tx.op), tx.pre.tss_pda.chain_id, tx.call.nonce, tx.call.amount, AdditionalOf(tx.call))

\* the call carries the hash of, and the TSS key's signature over, exactly that message
GenuineCredentials ==
    /\ tx.call.hashed = Canonical
    /\ tx.call.sig_over = Canonical
    /\ tx.call.sig_signer = tx.pre.tss_pda.tss_eth_address
    /\ tx.call.recovery_id = 0

\* what left the vault during the instruction
VaultDebit ==
    IF tx.op \in TokenOps
    THEN tx.pre.token_amount[<<VAULT, tx.call.token_mint>>] - token_amount[<<VAULT, tx.call.token_mint>>]
    ELSE tx.pre.lamports[VAULT] - lamports[VAULT]

VaultReleased ==
    \/ lamports[VAULT] < tx.pre.lamports[VAULT]
    \/ \E m \in Mints : token_amount[<<VAULT, m>>] < tx.pre.token_amount[<<VAULT, m>>]

----------------------------------------------------------------------------
(* Claims *)

\* C1: a TSS-gated call whose claimed nonce differs from the stored nonce fails and
\* leaves the nonce, the TSS address, the chain id and every balance as they were;
\* the error is NonceMismatch whenever the call gets as far as validate_message
\* (accounts exist, gateway not paused, token whitelisted, amount > 0, recipient set).
C1_WrongNonceRejected ==
    (TssExecuted /\ tx.pre.tss_pda.init /\ tx.call.nonce # tx.pre.tss_pda.nonce)
        => /\ tx.err # "Ok"
           /\ StateUnchanged
           /\ ReachesVerification => (tx.err = "NonceMismatch" /\ tx.verify = "Rejected")

\* a call that is right in everything but the nonce is turned down with NonceMismatch
C1_Witness ==
    /\ TssExecuted
    /\ tx.call.nonce # tx.pre.tss_pda.nonce
    /\ GenuineCredentials
    /\ tx.err = "NonceMismatch"

\* C2: after a TSS-gated call the committed nonce is the pre-call nonce plus one if
\* the call succeeded and the pre-call nonce if it failed, whatever made it fail.
C2_NonceAfterCall ==
    TssExecuted => IF tx.err = "Ok"
                   THEN tss_pda.nonce = tx.pre.tss_pda.nonce + 1
                   ELSE tss_pda.nonce = tx.pre.tss_pda.nonce

\* a call that passed the nonce check and failed at the signature check
C2_Witness ==
    /\ TssExecuted
    /\ tx.call.nonce = tx.pre.tss_pda.nonce
    /\ tx.err = "TssAuthFailed"
    /\ tss_pda.nonce = tx.call.nonce

\* the executed call re-submits the remembered, already consumed tuple
Replay == TssExecuted /\ marked.op = "consumed" /\ TupleOf(tx.call) = marked.tuple

\* the executed call claims the nonce the remembered call consumed
SameNonce == TssExecuted /\ marked.op = "consumed" /\ tx.call.nonce = marked.tuple.nonce

\* C3 as stated: re-submitting an already consumed (nonce, signature, message hash)
\* tuple fails, with NonceMismatch once it gets as far as validate_message, whatever
\* was committed in between (reset_nonce included).
C3_ReplayAlwaysNonceMismatch ==
    Replay => (tx.err # "Ok" /\ (ReachesVerification => tx.err = "NonceMismatch"))

\* C3 amended: as long as no reset_nonce has been committed since the tuple was
\* consumed, re-submitting it fails and changes nothing, whatever else (pause,
\* unpause, update_tss, other withdrawals) was committed in between; the error is
\* NonceMismatch whenever the call gets as far as validate_message.
C3_ReplayRejectedUnlessReset ==
    (Replay /\ ~marked.reset)
        => /\ tx.err # "Ok"
           /\ StateUnchanged
           /\ tss_pda.nonce > marked.tuple.nonce
           /\ ReachesVerification => (tx.err = "NonceMismatch" /\ tx.verify = "Rejected")

\* a replay turned down with NonceMismatch after another withdrawal went through
C3_Witness ==
    /\ Replay
    /\ ~marked.reset
    /\ tss_pda.nonce > marked.tuple.nonce + 1
    /\ tx.err = "NonceMismatch"

\* C4 as stated: of two TSS-gated calls submitted with the same nonce at most one
\* succeeds, so a nonce value is consumed at most once.
C4_NonceConsumedOnce == SameNonce => tx.err # "Ok"

\* C4 amended: of two TSS-gated calls submitted with the same nonce, with no
\* reset_nonce committed between them, at most one succeeds; once one has, the other
\* fails and changes nothing, with NonceMismatch whenever it gets as far as
\* validate_message.
C4_SameNonceOneWinner ==
    (SameNonce /\ ~marked.reset)
        => /\ tx.err # "Ok"
           /\ StateUnchanged
           /\ ReachesVerification => (tx.err = "NonceMismatch" /\ tx.verify = "Rejected")

\* the loser: a different message, signed by the TSS key for the same nonce
C4_Witness ==
    /\ SameNonce
    /\ ~marked.reset
    /\ tx.call.hashed # marked.tuple.hashed
    /\ GenuineCredentials
    /\ tx.err = "NonceMismatch"

\* C5: a message hash or a signature made for another instruction id is never
\* accepted; when hash and signature are the TSS key's over the same fields with
\* another id and the call reaches the hash check, it fails MessageHashMismatch.
C5_DomainSeparation ==
    TssExecuted =>
        /\ (tx.call.hashed.id # InstructionIdOf(tx.op) \/ tx.call.sig_over.id # InstructionIdOf(tx.op))
              => (tx.err # "Ok" /\ tx.verify # "Authorized")
        /\ ( /\ ReachesVerification
             /\ tx.call.nonce = tx.pre.tss_pda.nonce
             /\ tx.call.nonce < U64_MAX
             /\ tx.call.hashed.id # InstructionIdOf(tx.op) )
              => tx.err = "MessageHashMismatch"

\* the TSS key's hash and signature for instruction id i, every other field as the
\* handler for id j rebuilds it, presented to j
C5_Witness ==
    /\ TssExecuted
    /\ ReachesVerification
    /\ tx.call.nonce = tx.pre.tss_pda.nonce
    /\ tx.call.hashed.id # InstructionIdOf(tx.op)
    /\ tx.call.hashed = [Canonical EXCEPT !.id = tx.call.hashed.id]
    /\ tx.call.sig_over = tx.call.hashed
    /\ tx.call.sig_signer = tx.pre.tss_pda.tss_eth_address
    /\ tx.call.recovery_id = 0
    /\ tx.err = "MessageHashMismatch"

\* C6: a committed instruction leaves the stored nonce unchanged, or raises it by
\* exactly one and is then a successful TSS-gated call, or is a reset_nonce signed by
\* the record's authority, which sets it to the value given; update_tss, pause,
\* unpause, the admin instructions and the deposits leave it unchanged.
C6_NonceTransitions ==
    Executed =>
        \/ tss_pda.nonce = tx.pre.tss_pda.nonce
        \/ /\ tx.op \in TssOps
           /\ tx.err = "Ok"
           /\ tss_pda.nonce = tx.pre.tss_pda.nonce + 1
        \/ /\ tx.op = "reset_nonce"
           /\ tx.err = "Ok"
           /\ tx.call.signer = tx.pre.tss_pda.authority
           /\ tss_pda.nonce = tx.call.new_nonce

\* the authority moves the nonce back
C6_Witness ==
    /\ tx.op = "reset_nonce"
    /\ tx.err = "Ok"
    /\ tss_pda.nonce < tx.pre.tss_pda.nonce

\* C7 as stated: every committed instruction that releases value from the vault or
\* changes the signing authority (TSS address, chain id, nonce of an existing TSS
\* record, or the configured TSS address) had validate_message answer Ok.
C7_AllThroughVerification ==
    (Succeeded /\ tx.pre.tss_pda.init /\ (VaultReleased \/ tss_pda # tx.pre.tss_pda \/ config.tss_address # tx.pre.config.tss_address))
        => tx.verify = "Authorized"

\* C7 amended: a committed instruction that releases value from the vault is one of
\* the four TSS-gated instructions and had validate_message answer Ok; a committed
\* change of the TSS record is either the nonce increment of such an instruction or
\* an update_tss / reset_nonce signed by the record's authority, with no
\* verification; a committed change of the configured TSS address is a
\* set_tss_address signed by the admin, with no verification.
C7_VaultThroughVerification ==
    Succeeded =>
        /\ VaultReleased => (tx.op \in TssOps /\ tx.verify = "Authorized")
        /\ (tx.pre.tss_pda.init /\ tss_pda # tx.pre.tss_pda) =>
              \/ /\ tx.op \in TssOps
                 /\ tx.verify = "Authorized"
                 /\ tss_pda = [tx.pre.tss_pda EXCEPT !.nonce = @ + 1]
              \/ /\ tx.op \in {"update_tss", "reset_nonce"}
                 /\ tx.call.signer = tx.pre.tss_pda.authority
                 /\ tx.verify = "NotCalled"
        /\ config.tss_address # tx.pre.config.tss_address =>
              /\ tx.op = "set_tss_address"
              /\ tx.call.signer = tx.pre.config.admin
              /\ tx.verify = "NotCalled"

\* a withdrawal that paid out, after verification
C7_Witness ==
    /\ Succeeded
    /\ tx.op \in TssOps
    /\ VaultReleased
    /\ tx.verify = "Authorized"

\* C8 as stated: in every successful revert_withdraw or revert_withdraw_spl_token the
\* account that receives the funds is revert_cfg.fund_recipient (for tokens: a token
\* account owned by it).
C8_RevertPaysFundRecipient ==
    (Succeeded /\ tx.op \in RevertOps) =>
        /\ \A k \in DOMAIN lamports : lamports[k] > tx.pre.lamports[k] => k = tx.call.fund_recipient
        /\ \A acct \in DOMAIN token_amount : token_amount[acct] > tx.pre.token_amount[acct] => acct[1] = tx.call.fund_recipient

\* C9: a revert_withdraw or revert_withdraw_spl_token whose fund_recipient is the
\* zero key fails and changes nothing; the error is InvalidRecipient, raised before
\* any verification, whenever the gateway is not paused, the token is whitelisted
\* and the amount is positive, whatever hash, signature and nonce it carries.
C9_ZeroRecipientRejected ==
    (Executed /\ tx.op \in RevertOps /\ tx.call.fund_recipient = Default)
        => /\ tx.err # "Ok"
           /\ StateUnchanged
           /\ ( /\ tx.pre.config.init /\ tx.pre.tss_pda.init
                /\ ~tx.pre.config.paused
                /\ tx.op \in TokenOps => Contains(tx.pre.whitelist, tx.call.token_mint)
                /\ tx.call.amount > 0 )
                 => (tx.err = "InvalidRecipient" /\ tx.verify = "NotCalled")

\* a revert to the zero key that carries the TSS key's signature over exactly its
\* own fields, with the right nonce
C9_Witness ==
    /\ tx.op = "revert_withdraw"
    /\ tx.call.fund_recipient = Default
    /\ GenuineCredentials
    /\ tx.call.nonce = tx.pre.tss_pda.nonce
    /\ tx.err = "InvalidRecipient"
    /\ tss_pda.nonce = tx.call.nonce
    /\ lamports[VAULT] = tx.pre.lamports[VAULT]

\* the same call, submitted again on the accounts as they are now, passes verification
Resubmittable ==
    validate_message(tss_pda, InstructionIdOf(tx.op), tx.call.nonce, <<tx.call.amount>>, <<to_bytes(AdditionalOf(tx.call))>>, MessageHashOf(tx.call), SignatureOf(tx.call), tx.call.recovery_id).err = "Ok"

\* C10: when validate_message answered Ok and the transfer did not move the amount
\* out of the vault, the call failed, every account is as before, no event was
\* emitted, and the stored nonce is back at the call's nonce so that the same
\* signed message verifies again.
C10_TransferFailureRollsBack ==
    (TssExecuted /\ tx.verify = "Authorized" /\ VaultDebit # tx.call.amount)
        => /\ tx.err # "Ok"
           /\ StateUnchanged
           /\ tx.events = <<>>
           /\ tss_pda.nonce = tx.call.nonce
           /\ Resubmittable

\* a verified withdrawal the vault could not pay
C10_Witness ==
    /\ TssExecuted
    /\ tx.verify = "Authorized"
    /\ tx.err = "InsufficientFunds"
    /\ tx.pre.lamports[VAULT] < tx.call.amount

----------------------------------------------------------------------------
(* C11: the pause gate *)

\* the accounts of the executed instruction pass Anchor's validation: the TSS record
\* exists for a withdrawal, the token accounts of a token deposit have the owners and
\* the mint the account constraints ask for
AccountsValid ==
    CASE tx.op \in TssOps -> tx.pre.tss_pda.init
      [] tx.op = "send_funds" -> TokenAccountConstraints(tx.call.signer, tx.call.user_token_account, <<VAULT, MINT_A>>, tx.call.bridge_token_account) = "Ok"
      [] OTHER -> TRUE

\* a deposit or a withdrawal was executed while the gateway was paused
PausedCall == Executed /\ tx.op \in (DepositOps \cup TssOps) /\ tx.pre.config.init /\ tx.pre.config.paused

\* the accounts of the executed instruction after a successful unpause by the admin
Unpaused == unpause(tx.pre, tx.pre.config.admin).w

\* C11 as stated: while the gateway is paused every deposit and every withdrawal fails,
\* moves no value, changes no nonce and emits no message, and the error (once the
\* accounts pass validation) is PausedError.
C11_PausedFailsWithPausedError ==
    PausedCall =>
        /\ tx.err # "Ok"
        /\ StateUnchanged
        /\ tx.events = <<>>
        /\ AccountsValid => tx.err = "PausedError"

\* C11 (amended): while the gateway is paused every deposit and every withdrawal fails,
\* moves no value, changes no nonce and emits no message; once the accounts pass
\* validation the error is PausedError for the four withdrawals and Paused, a different
\* error code, for the four deposits; the same call on the accounts as unpause leaves
\* them no longer fails with either error.
C11_PauseGate ==
    PausedCall =>
        /\ tx.err # "Ok"
        /\ StateUnchanged
        /\ tx.events = <<>>
        /\ AccountsValid => tx.err = (IF tx.op \in DepositOps THEN "Paused" ELSE "PausedError")
        /\ pushsolanagateway(Unpaused, tx.call).err \notin {"Paused", "PausedError"}

\* a deposit refused with Paused that succeeds on the unpaused accounts
C11_Witness ==
    /\ PausedCall
    /\ tx.op \in DepositOps
    /\ tx.err = "Paused"
    /\ pushsolanagateway(Unpaused, tx.call).err = "Ok"

----------------------------------------------------------------------------
(* C12: who moves the pause flag *)

PauseOps == {"pause", "unpause"}

\* the signer of the executed instruction is the configured pauser or the configured admin
SignerMayPause == tx.call.signer \in {tx.pre.config.pauser, tx.pre.config.admin}

\* C12: once the gateway is initialized the paused flag changes only in a pause or
\* unpause signed by the configured pauser or the configured admin; such a call
\* succeeds and leaves the flag set (pause) or cleared (unpause); a pause or unpause
\* signed by anybody else fails with Unauthorized and changes nothing; no other
\* instruction changes the flag.
C12_PauseFlagAuthority ==
    (Executed /\ tx.pre.config.init) =>
        /\ config.paused # tx.pre.config.paused => (tx.op \in PauseOps /\ SignerMayPause)
        /\ (tx.op \in PauseOps /\ SignerMayPause) => (tx.err = "Ok" /\ config.paused = (tx.op = "pause"))
        /\ (tx.op \in PauseOps /\ ~SignerMayPause) => (tx.err = "Unauthorized" /\ StateUnchanged)

\* somebody who is neither pauser nor admin tried to unpause a paused gateway
C12_Witness ==
    /\ Executed
    /\ tx.op = "unpause"
    /\ tx.pre.config.paused
    /\ ~SignerMayPause
    /\ tx.err = "Unauthorized"
    /\ config.paused

----------------------------------------------------------------------------
(* C13: admin-only configuration *)

AdminOps == {"set_tss_address", "set_caps_usd", "set_pyth_price_feed", "set_pyth_confidence_threshold", "whitelist_token", "remove_whitelist_token"}

\* the configuration apart from the pause flag, and the whitelist
Settings(w) == <<[w.config EXCEPT !.paused = FALSE], w.whitelist>>

\* C13: on an initialized gateway, set_tss_address, set_caps_usd, set_pyth_price_feed,
\* set_pyth_confidence_threshold, whitelist_token and remove_whitelist_token signed by
\* anybody but the configured admin (the pauser included) fail and leave configuration
\* and whitelist as they were, with Unauthorized whenever the gateway is not paused
\* (the pause check comes first); and the configuration apart from the pause flag and
\* the whitelist change only in one of these instructions signed by the admin.
C13_AdminOnly ==
    (Executed /\ tx.pre.config.init) =>
        /\ (tx.op \in AdminOps /\ tx.call.signer # tx.pre.config.admin) =>
              /\ tx.err # "Ok"
              /\ StateUnchanged
              /\ tx.events = <<>>
              /\ ~tx.pre.config.paused => tx.err = "Unauthorized"
        /\ Settings(World) # Settings(tx.pre) => (tx.op \in AdminOps /\ tx.call.signer = tx.pre.config.admin)

\* the pauser tried to set the caps on a running gateway
C13_Witness ==
    /\ Executed
    /\ tx.op = "set_caps_usd"
    /\ tx.pre.config.init
    /\ ~tx.pre.config.paused
    /\ tx.call.signer = tx.pre.config.pauser
    /\ tx.call.min_cap_usd <= tx.call.max_cap_usd
    /\ tx.err = "Unauthorized"

----------------------------------------------------------------------------
(* C14: the cap range *)

Caps(cfg) == <<cfg.min_cap_universal_tx_usd, cfg.max_cap_universal_tx_usd>>

\* the executed instruction is an initialize or a set_caps_usd asking for min > max
ReversedCaps == Executed /\ tx.op \in {"initialize", "set_caps_usd"} /\ tx.call.min_cap_usd > tx.call.max_cap_usd

\* the call gets as far as the handler's range check: the config account is free
\* (initialize), or exists, is not paused and the signer is the admin (set_caps_usd)
ReachesRangeCheck ==
    IF tx.op = "initialize" THEN ~tx.pre.config.init
    ELSE tx.pre.config.init /\ ~tx.pre.config.paused /\ tx.call.signer = tx.pre.config.admin

\* C14: in every state of an initialized gateway min cap <= max cap; an initialize or
\* set_caps_usd with min > max fails and leaves the configuration as it was, with
\* InvalidCapRange whenever the call reaches the handler; and the caps are written by
\* initialize and set_caps_usd only.
C14_CapRange ==
    /\ config.init => config.min_cap_universal_tx_usd <= config.max_cap_universal_tx_usd
    /\ ReversedCaps => (tx.err # "Ok" /\ config = tx.pre.config /\ (ReachesRangeCheck => tx.err = "InvalidCapRange"))
    /\ (Executed /\ Caps(config) # Caps(tx.pre.config)) => tx.op \in {"initialize", "set_caps_usd"}

\* the admin asked for min > max on a running gateway whose caps differ
C14_Witness ==
    /\ ReversedCaps
    /\ tx.op = "set_caps_usd"
    /\ ReachesRangeCheck
    /\ tx.err = "InvalidCapRange"
    /\ config.min_cap_universal_tx_usd < config.max_cap_universal_tx_usd

----------------------------------------------------------------------------
(* C15: what initialize refuses *)

\* an initialize that is a second one, asks for min > max, or names a zero identity
BadInitialize ==
    /\ Executed
    /\ tx.op = "initialize"
    /\ \/ tx.pre.config.init
       \/ tx.call.min_cap_usd > tx.call.max_cap_usd
       \/ Default \in {tx.call.admin, tx.call.pauser, tx.call.tss, tx.call.pyth_price_feed}

\* C15 as stated: initialize is one-time and fails, creating no configuration, if
\* min cap > max cap or if admin, pauser, authority or price feed is the zero identity;
\* so in every initialized state the four identities are non-zero.
C15_InitializeValidates ==
    /\ BadInitialize => (tx.err # "Ok" /\ config = tx.pre.config)
    /\ config.init => Default \notin {config.admin, config.pauser, config.tss_address, config.pyth_price_feed}

----------------------------------------------------------------------------
(* C16: the whitelist holds each token once *)

\* C16: whatever whitelist_token and remove_whitelist_token calls were made, the
\* whitelist holds no token twice and never holds the zero key.
C16_WhitelistNoDuplicates ==
    /\ \A i, j \in 1..Len(whitelist) : whitelist[i] = whitelist[j] => i = j
    /\ ~Contains(whitelist, Default)

\* a token whitelisted from the start was removed and whitelisted again behind another
C16_Witness ==
    /\ Succeeded
    /\ tx.op = "whitelist_token"
    /\ whitelist = <<MINT_B, MINT_A>>

----------------------------------------------------------------------------
(* C17: the whitelist behaves as a set *)

WhitelistOps == {"whitelist_token", "remove_whitelist_token"}

\* the tokens a whitelist holds
Members(tokens) == {tokens[i] : i \in 1..Len(tokens)}

\* a whitelist instruction that got as far as the list: gateway initialized and not
\* paused, signed by the admin, token not the zero key
ReachesWhitelist ==
    /\ Executed
    /\ tx.op \in WhitelistOps
    /\ tx.pre.config.init
    /\ ~tx.pre.config.paused
    /\ tx.call.signer = tx.pre.config.admin
    /\ tx.call.token # Default

\* the result of removing the token of the executed instruction right after it
RemoveAgain == pushsolanagateway(World, [op |-> "remove_whitelist_token", signer |-> tx.call.signer, token |-> tx.call.token])

\* C17: whitelist_token of a member fails with TokenAlreadyWhitelisted and
\* remove_whitelist_token of a non-member fails with TokenNotWhitelisted, both leaving
\* the whitelist as it was and emitting no event; otherwise the call succeeds and the
\* membership set gains, or loses, exactly that token; and a successful add followed by
\* the remove of the same token succeeds and restores the previous membership set.
C17_WhitelistSetLike ==
    ReachesWhitelist =>
        LET member == Contains(tx.pre.whitelist, tx.call.token)
        IN  /\ (tx.op = "whitelist_token" /\ member) => (tx.err = "TokenAlreadyWhitelisted" /\ StateUnchanged /\ tx.events = <<>>)
            /\ (tx.op = "remove_whitelist_token" /\ ~member) => (tx.err = "TokenNotWhitelisted" /\ StateUnchanged /\ tx.events = <<>>)
            /\ (tx.op = "whitelist_token" /\ ~member) =>
                  /\ tx.err = "Ok"
                  /\ Members(whitelist) = Members(tx.pre.whitelist) \cup {tx.call.token}
                  /\ RemoveAgain.err = "Ok"
                  /\ Members(RemoveAgain.w.whitelist) = Members(tx.pre.whitelist)
            /\ (tx.op = "remove_whitelist_token" /\ member) =>
                  /\ tx.err = "Ok"
                  /\ Members(whitelist) = Members(tx.pre.whitelist) \ {tx.call.token}

\* the admin whitelisted a token that was on a list of two already
C17_Witness ==
    /\ ReachesWhitelist
    /\ tx.op = "whitelist_token"
    /\ Len(tx.pre.whitelist) = 2
    /\ tx.err = "TokenAlreadyWhitelisted"

----------------------------------------------------------------------------
(* C18: the whitelist gates token movements *)

\* the instructions that move tokens: token deposits and token withdrawals
TokenMoveOps == {"send_funds", "send_tx_with_funds"} \cup TokenOps

\* the mints whose balances the executed instruction changed
MovedMints == {acct[2] : acct \in {a \in DOMAIN token_amount : token_amount[a] # tx.pre.token_amount[a]}}

\* the token the executed instruction names: the bridge_token argument of a deposit,
\* the token_mint account of a withdrawal
NamedToken == IF tx.op \in TokenOps THEN tx.call.token_mint ELSE tx.call.bridge_token

\* the executed instruction names a token that is not the zero key
NamesToken == Executed /\ tx.op \in TokenMoveOps /\ NamedToken # Default

\* C18 as stated: a token deposit or token withdrawal succeeds only if the token it
\* names is whitelisted at the moment of the call, and whitelist membership gates
\* every token movement: the tokens a successful call moves are whitelisted tokens.
C18_WhitelistGatesTokenMovement ==
    NamesToken =>
        /\ ~Contains(tx.pre.whitelist, NamedToken) => (tx.err # "Ok" /\ StateUnchanged)
        /\ \A m \in MovedMints : Contains(tx.pre.whitelist, m)

----------------------------------------------------------------------------
(* C19: the gas deposit *)

\* a send_tx_with_gas was executed
GasDeposit == Executed /\ tx.op = "send_tx_with_gas"

\* the conditions of the gas deposit, read from the call and the accounts it started
\* on: gateway initialized and not paused, revert recipient not the zero key, positive
\* amount the caller can pay, an oracle price above zero, amount within the USD caps
GasDepositConditions ==
    /\ tx.pre.config.init
    /\ ~tx.pre.config.paused
    /\ tx.call.fund_recipient # Default
    /\ tx.call.amount > 0
    /\ tx.pre.lamports[tx.call.signer] >= tx.call.amount
    /\ tx.call.price_update.feed_matches
    /\ tx.call.price_update.price > 0
    /\ check_usd_caps_with_pyth(tx.pre.config, tx.call.amount, [price |-> tx.call.price_update.price, exponent |-> tx.call.price_update.exponent]) = "Ok"

----------------------------------------------------------------------------
(* C20: USD caps apply to the gas route only *)

FundsOps == {"send_funds", "send_funds_native"}
GasOps == {"send_tx_with_gas", "send_tx_with_funds"}

\* cap settings a second run is made with: the initial ones, min = max, and caps of zero
OtherCaps == {<<CAP_MIN, CAP_MAX>>, <<CAP_MAX, CAP_MAX>>, <<0, 0>>}

\* the accounts `w` with the caps set to `caps`
WithCaps(w, caps) == [w EXCEPT !.config.min_cap_universal_tx_usd = caps[1], !.config.max_cap_universal_tx_usd = caps[2]]

\* the gas amount of the executed gas-route deposit
GasAmount == IF tx.op = "send_tx_with_gas" THEN tx.call.amount ELSE tx.call.gas_amount

\* C20: a send_funds or send_funds_native run again on the same accounts with other
\* caps gives the same result (the same error, or the same transfer and message), and
\* neither takes an oracle price; a send_tx_with_gas or send_tx_with_funds succeeds
\* only if its gas amount passes the cap check against the oracle price it was given,
\* and run again with caps that exclude the gas amount it fails with BelowMinCap or
\* AboveMaxCap.
C20_CapsOnlyOnGasRoute ==
    /\ (Executed /\ tx.op \in FundsOps) =>
          /\ "price_update" \notin DOMAIN tx.call
          /\ \A caps \in OtherCaps :
                LET r == pushsolanagateway(WithCaps(tx.pre, caps), tx.call)
                IN  /\ r.err = tx.err
                    /\ r.err = "Ok" => (r.events = tx.events /\ r.w = WithCaps(World, caps))
    /\ (Succeeded /\ tx.op \in GasOps) =>
          /\ check_usd_caps(tx.pre.config, GasAmount, tx.call.price_update) = "Ok"
          /\ \A caps \in OtherCaps :
                check_usd_caps(WithCaps(tx.pre, caps).config, GasAmount, tx.call.price_update) # "Ok"
                    => pushsolanagateway(WithCaps(tx.pre, caps), tx.call).err \in {"BelowMinCap", "AboveMaxCap"}

\* a native funds deposit went through whose amount is below the minimum cap
C20_Witness ==
    /\ Succeeded
    /\ tx.op = "send_funds_native"
    /\ check_usd_caps(tx.pre.config, tx.call.amount, GoodPriceUpdate) = "BelowMinCap"
    /\ lamports[VAULT] = tx.pre.lamports[VAULT] + tx.call.amount

----------------------------------------------------------------------------
(* C21: send_tx_with_funds short of native balance *)

\* a send_tx_with_funds was executed
FundsAndPayload == Executed /\ tx.op = "send_tx_with_funds"

\* the checks of send_tx_with_funds that come before any balance is looked at pass:
\* gateway initialized and not paused, positive amounts, revert recipient not the zero
\* key, gas amount within the caps; bridge_amount + gas_amount fits a u64
EarlyChecksPass ==
    /\ tx.pre.config.init
    /\ ~tx.pre.config.paused
    /\ tx.call.amount > 0
    /\ tx.call.gas_amount > 0
    /\ tx.call.fund_recipient # Default
    /\ check_usd_caps(tx.pre.config, tx.call.gas_amount, tx.call.price_update) = "Ok"
    /\ tx.call.amount + tx.call.gas_amount <= U64_MAX

\* the caller's native balance when the instruction started
CallerBalance == tx.pre.lamports[tx.call.signer]

\* a native send_tx_with_funds by a caller who holds less than bridge_amount + gas_amount
NativeShort ==
    /\ FundsAndPayload
    /\ tx.call.bridge_token = Default
    /\ EarlyChecksPass
    /\ CallerBalance < tx.call.amount + tx.call.gas_amount

----------------------------------------------------------------------------
(* C22: send_tx_with_funds balance requirement *)

\* a native send_tx_with_funds by a caller who holds at least bridge_amount + gas_amount
NativeCovered ==
    /\ FundsAndPayload
    /\ tx.call.bridge_token = Default
    /\ EarlyChecksPass
    /\ CallerBalance >= tx.call.amount + tx.call.gas_amount

\* C22: a native send_tx_with_funds whose caller holds at least bridge_amount +
\* gas_amount when it is called, every other check passing, is accepted and moves
\* exactly bridge_amount + gas_amount from the caller to the vault.
C22_CoveredIsAccepted ==
    NativeCovered =>
        /\ tx.err = "Ok"
        /\ lamports[VAULT] = tx.pre.lamports[VAULT] + tx.call.amount + tx.call.gas_amount
        /\ lamports[tx.call.signer] = CallerBalance - (tx.call.amount + tx.call.gas_amount)

----------------------------------------------------------------------------
(* C23: the two messages of send_tx_with_funds *)

\* C23: a successful send_tx_with_funds emits exactly two messages, in this order: a Gas
\* TxWithGas for gas_amount whose revert recipient is the caller, then a FundsAndPayload
\* TxWithFunds with the zero key as recipient, the serialized payload as data (it
\* deserializes to the payload supplied), bridge_amount, gas_amount, the bridge token
\* and the caller's revert config; a failed send_tx_with_funds emits none.
C23_GasThenFundsAndPayload ==
    FundsAndPayload =>
        IF tx.err = "Ok"
        THEN /\ Len(tx.events) = 2
             /\ tx.events[1].event = "TxWithGas"
             /\ tx.events[1].tx_type = "Gas"
             /\ tx.events[1].sender = tx.call.signer
             /\ tx.events[1].native_token_deposited = tx.call.gas_amount
             /\ tx.events[1].revert_cfg.fund_recipient = tx.call.signer
             /\ tx.events[2].event = "TxWithFunds"
             /\ tx.events[2].tx_type = "FundsAndPayload"
             /\ tx.events[2].sender = tx.call.signer
             /\ tx.events[2].recipient = Default
             /\ try_from_slice(tx.events[2].data) = tx.call.payload
             /\ tx.events[2].bridge_amount = tx.call.amount
             /\ tx.events[2].gas_amount = tx.call.gas_amount
             /\ tx.events[2].bridge_token = tx.call.bridge_token
             /\ tx.events[2].revert_cfg.fund_recipient = tx.call.fund_recipient
        ELSE tx.events = <<>>

\* a send_tx_with_funds with a payload and a revert recipient other than the caller went
\* through
C23_Witness ==
    /\ FundsAndPayload
    /\ tx.err = "Ok"
    /\ tx.call.payload = PAYLOAD
    /\ tx.call.fund_recipient # tx.call.signer
    /\ Len(tx.events) = 2

----------------------------------------------------------------------------
(* C24: check_usd_caps_with_pyth is monotonic in the amount *)

\* check_usd_caps_with_pyth was applied
CapsChecked == tx.op = "check_usd_caps_with_pyth"

\* the outcome for another amount at the same price and caps
CapsOutcome(lam) == check_usd_caps_with_pyth(tx.pre.config, lam, tx.call.price_data)

\* C24: for a fixed price and fixed caps, when an amount passes or fails with
\* AboveMaxCap no larger amount fails with BelowMinCap, and when an amount passes or
\* fails with BelowMinCap no smaller amount fails with AboveMaxCap.
C24_CapsMonotonic ==
    CapsChecked =>
        /\ tx.err \in {"Ok", "AboveMaxCap"} =>
              \A larger \in CapLamports : larger > tx.call.lamports => CapsOutcome(larger) # "BelowMinCap"
        /\ tx.err \in {"Ok", "BelowMinCap"} =>
              \A smaller \in CapLamports : smaller < tx.call.lamports => CapsOutcome(smaller) # "AboveMaxCap"

\* an amount passed while a smaller one is below the minimum and a larger one above the
\* maximum
C24_Witness ==
    /\ CapsChecked
    /\ tx.err = "Ok"
    /\ \E smaller \in CapLamports : smaller < tx.call.lamports /\ CapsOutcome(smaller) = "BelowMinCap"
    /\ \E larger \in CapLamports : larger > tx.call.lamports /\ CapsOutcome(larger) = "AboveMaxCap"

----------------------------------------------------------------------------
(* C25: the price exponent *)

\* two PriceData values that write the same USD price with different exponents
SamePrice(p, q) ==
    /\ p.exponent > q.exponent
    /\ q.price % Pow10(p.exponent - q.exponent) = 0
    /\ q.price \div Pow10(p.exponent - q.exponent) = p.price

\* C25: the same USD price written with different exponents gives the same amount in
\* 8-decimal USD and the same cap decision; with caps 100_000000 and 1000_000000, 0.01
\* SOL at 150.00 USD written with exponent -6 gives 150_000_000 and passes.
C25_ExponentNormalised ==
    CapsChecked =>
        /\ \A q \in CapPriceDatas :
              (SamePrice(tx.call.price_data, q) \/ SamePrice(q, tx.call.price_data)) =>
                  /\ usd_amount_8dec(tx.call.lamports, q) = usd_amount_8dec(tx.call.lamports, tx.call.price_data)
                  /\ CapsOutcome(tx.call.lamports) = check_usd_caps_with_pyth(tx.pre.config, tx.call.lamports, q)
        /\ (/\ tx.call.lamports = 10000000
            /\ tx.call.price_data = [price |-> 150000000, exponent |-> -6]
            /\ tx.pre.config.min_cap_universal_tx_usd = 100000000
            /\ tx.pre.config.max_cap_universal_tx_usd = 1000000000) =>
                  (usd_amount_8dec(tx.call.lamports, tx.call.price_data) = 150000000 /\ tx.err = "Ok")

----------------------------------------------------------------------------
(* C26: who may change the TSS record *)

\* C26: update_tss and reset_nonce succeed only when signed by the stored authority,
\* and with any other signer fail and leave the ETH address, chain id, nonce and
\* authority as they were; init_tss on an existing record fails and leaves it as it
\* was (nothing overwritten, nonce not reset); a successful update_tss stores the
\* address and chain id it was given and leaves nonce and authority unchanged.
C26_TssRecordAuthority ==
    /\ (tx.op \in {"update_tss", "reset_nonce"} /\ tx.err = "Ok") =>
          (tx.pre.tss_pda.init /\ tx.call.signer = tx.pre.tss_pda.authority)
    /\ (tx.op \in {"update_tss", "reset_nonce"} /\ tx.call.signer # tx.pre.tss_pda.authority) =>
          (tx.err # "Ok" /\ tss_pda = tx.pre.tss_pda)
    /\ (tx.op = "init_tss" /\ tx.pre.tss_pda.init) =>
          (tx.err # "Ok" /\ tss_pda = tx.pre.tss_pda)
    /\ (tx.op = "update_tss" /\ tx.err = "Ok") =>
          /\ tss_pda.tss_eth_address = tx.call.tss_eth_address
          /\ tss_pda.chain_id = tx.call.chain_id
          /\ tss_pda.nonce = tx.pre.tss_pda.nonce
          /\ tss_pda.authority = tx.pre.tss_pda.authority
    /\ (tx.op = "reset_nonce" /\ tx.err = "Ok") =>
          tss_pda = [tx.pre.tss_pda EXCEPT !.nonce = tx.call.new_nonce]

\* init_tss was refused on a record whose nonce had advanced and whose address it
\* would have changed
C26_Witness ==
    /\ tx.op = "init_tss"
    /\ tx.pre.tss_pda.init
    /\ tx.pre.tss_pda.nonce > 0
    /\ tx.call.tss_eth_address # tx.pre.tss_pda.tss_eth_address
    /\ tx.err # "Ok"
    /\ tss_pda = tx.pre.tss_pda

----------------------------------------------------------------------------
(* C27: what a native withdrawal does *)

\* C27: a successful withdraw_tss takes exactly `amount` lamports from the vault and
\* adds them to the recipient, who is the recipient of the signed message, advances
\* the nonce by one and emits one WithdrawFunds event with the recipient, the amount
\* and the zero key as token; its amount is positive, and an amount of 0 on a running
\* gateway fails with InvalidAmount and leaves the nonce as it was.
C27_NativeWithdraw ==
    tx.op = "withdraw_tss" =>
        /\ tx.err = "Ok" =>
              /\ tx.call.amount > 0
              /\ lamports = [tx.pre.lamports EXCEPT ![VAULT] = @ - tx.call.amount, ![tx.call.recipient] = @ + tx.call.amount]
              /\ tx.call.hashed.additional = tx.call.recipient
              /\ tx.call.sig_over.additional = tx.call.recipient
              /\ tss_pda = [tx.pre.tss_pda EXCEPT !.nonce = @ + 1]
              /\ token_amount = tx.pre.token_amount
              /\ tx.events = << [event |-> "WithdrawFunds", recipient |-> tx.call.recipient, amount |-> tx.call.amount, token |-> Default] >>
        /\ (tx.pre.config.init /\ tx.pre.tss_pda.init /\ ~tx.pre.config.paused /\ tx.call.amount = 0) =>
              (tx.err = "InvalidAmount" /\ StateUnchanged)

\* a withdrawal went through and moved lamports to its recipient
C27_Witness ==
    /\ tx.op = "withdraw_tss"
    /\ tx.err = "Ok"
    /\ lamports[tx.call.recipient] > tx.pre.lamports[tx.call.recipient]
    /\ tss_pda.nonce = tx.pre.tss_pda.nonce + 1

----------------------------------------------------------------------------
(* C28: a bad signature on the valid nonce *)

\* a TSS-gated call with the stored nonce and the right message hash failed at the
\* signature check
BadSignature ==
    /\ TssExecuted
    /\ ReachesVerification
    /\ tx.call.nonce = tx.pre.tss_pda.nonce
    /\ tx.err = "TssAuthFailed"

\* the same call carrying what the TSS key produces for that nonce
LegitimateCall ==
    [tx.call EXCEPT !.hashed = Canonical, !.sig_over = Canonical, !.sig_signer = tx.pre.tss_pda.tss_eth_address, !.recovery_id = 0]

\* C28 as stated: after a call with the valid nonce and an invalid signature the stored
\* nonce has advanced and the TSS key's correctly signed message for that nonce is
\* rejected with NonceMismatch.
C28_BadSignatureBurnsNonce ==
    BadSignature =>
        /\ tss_pda.nonce = tx.pre.tss_pda.nonce + 1
        /\ pushsolanagateway(World, LegitimateCall).err = "NonceMismatch"

\* C28 (amended): a call with the valid nonce and an invalid signature increments the
\* nonce inside the instruction, fails with TssAuthFailed and leaves every account,
\* the stored nonce included, as it was; the TSS key's correctly signed message for
\* that nonce is afterwards treated exactly as it would have been before, and is not
\* rejected with NonceMismatch.
C28_BadSignatureKeepsNonce ==
    BadSignature =>
        /\ pushsolanagateway(tx.pre, tx.call).w.tss_pda.nonce = tx.pre.tss_pda.nonce + 1
        /\ StateUnchanged
        /\ pushsolanagateway(World, LegitimateCall) = pushsolanagateway(tx.pre, LegitimateCall)
        /\ pushsolanagateway(World, LegitimateCall).err # "NonceMismatch"

\* after the bad signature the correctly signed message for the same nonce pays out
C28_Witness ==
    /\ BadSignature
    /\ pushsolanagateway(World, LegitimateCall).err = "Ok"
    /\ pushsolanagateway(World, LegitimateCall).w.tss_pda.nonce = tx.call.nonce + 1

----------------------------------------------------------------------------
(* C29: the order of the checks *)

\* the nonce step of validate_message fails: the claimed nonce is not the stored one,
\* or the stored one cannot be incremented
NonceStepFails == tx.call.nonce # tx.pre.tss_pda.nonce \/ tx.pre.tss_pda.nonce + 1 > U64_MAX

\* the message hash the call carries is not the hash of the rebuilt message
HashStepFails == MessageHashOf(tx.call) # Digest(Canonical)

\* the signature does not recover the stored address from the message hash
SignatureStepFails ==
    secp256k1_recover(MessageHashOf(tx.call), tx.call.recovery_id, SignatureOf(tx.call)) # <<tx.pre.tss_pda.tss_eth_address>>

VerificationErrors == {"NonceMismatch", "MessageHashMismatch", "TssAuthFailed"}

\* C29: a TSS-gated call that passes the handler's own checks is rejected at the first
\* failing step of nonce, hash, signature, whatever is wrong further on: NonceMismatch
\* when the nonce step fails, else MessageHashMismatch when the hash differs, else
\* TssAuthFailed when the signature does not recover the stored address, else
\* verification answers Ok; a call that fails one of the handler's checks (accounts,
\* pause, whitelist, amount, recipient) gets that check's error and verification is
\* not called.
C29_VerificationOrder ==
    TssExecuted =>
        IF ReachesVerification
        THEN IF NonceStepFails THEN tx.err = "NonceMismatch" /\ tx.verify = "Rejected"
             ELSE IF HashStepFails THEN tx.err = "MessageHashMismatch" /\ tx.verify = "Rejected"
             ELSE IF SignatureStepFails THEN tx.err = "TssAuthFailed" /\ tx.verify = "Rejected"
             ELSE tx.verify = "Authorized" /\ tx.err \notin VerificationErrors
        ELSE /\ tx.verify = "NotCalled"
             /\ tx.err = (IF ~(tx.pre.config.init /\ tx.pre.tss_pda.init) THEN "AccountNotInitialized"
                          ELSE IF tx.pre.config.paused THEN "PausedError"
                          ELSE IF tx.op \in TokenOps /\ ~Contains(tx.pre.whitelist, tx.call.token_mint) THEN "TokenNotWhitelisted"
                          ELSE IF tx.call.amount = 0 THEN "InvalidAmount"
                          ELSE "InvalidRecipient")

\* the right nonce with a wrong hash and a signature that does not fit was turned down
\* for the hash
C29_Witness ==
    /\ TssExecuted
    /\ ReachesVerification
    /\ ~NonceStepFails /\ HashStepFails /\ SignatureStepFails
    /\ tx.err = "MessageHashMismatch"

----------------------------------------------------------------------------
(* C30: verification uses the TSS record as it is when the call is made *)

\* a withdraw_tss for the stored nonce carrying what the TSS key of the record before
\* the last instruction produces: the hash under that record's chain id, signed by
\* that record's address
OldCall(amount, recipient) ==
    LET m == Msg(1, tx.pre.tss_pda.chain_id, tss_pda.nonce, amount, recipient)
    IN  TssCall("withdraw_tss", amount, tss_pda.nonce, recipient, Default, Default, Default,
                [hashed |-> m, sig_over |-> m, sig_signer |-> tx.pre.tss_pda.tss_eth_address, recovery_id |-> 0])

\* update_tss went through and a withdrawal would get as far as the hash check
UpdatedTss ==
    /\ tx.op = "update_tss"
    /\ tx.err = "Ok"
    /\ ~config.paused
    /\ tss_pda.nonce + 1 <= U64_MAX

\* C30: right after a successful update_tss, a withdrawal with the matching nonce whose
\* message is hashed under the chain id stored before fails with MessageHashMismatch if
\* the chain id was changed, and otherwise fails with TssAuthFailed if it is signed by
\* the address stored before and the address was changed; in general a TSS-gated call
\* with the matching nonce fails with MessageHashMismatch when hashed under another
\* chain id than the stored one, with TssAuthFailed when the hash is right and the
\* signer is not the stored address, and succeeds only if the address recovered from
\* its signature is the address stored when it is called.
C30_CurrentAuthority ==
    /\ UpdatedTss =>
          \A recipient \in Recipients :
              pushsolanagateway(World, OldCall(MaxAmount, recipient)).err =
                  (IF tss_pda.chain_id # tx.pre.tss_pda.chain_id THEN "MessageHashMismatch"
                   ELSE IF tss_pda.tss_eth_address # tx.pre.tss_pda.tss_eth_address THEN "TssAuthFailed"
                   ELSE pushsolanagateway(tx.pre, OldCall(MaxAmount, recipient)).err)
    /\ (TssExecuted /\ ReachesVerification /\ ~NonceStepFails) =>
          /\ tx.call.hashed.chain_id # tx.pre.tss_pda.chain_id => tx.err = "MessageHashMismatch"
          /\ (~HashStepFails /\ tx.call.sig_signer # tx.pre.tss_pda.tss_eth_address) => tx.err = "TssAuthFailed"
    /\ (TssExecuted /\ tx.err = "Ok") =>
          secp256k1_recover(MessageHashOf(tx.call), tx.call.recovery_id, SignatureOf(tx.call)) = <<tx.pre.tss_pda.tss_eth_address>>

\* update_tss changed the address only, and a withdrawal signed by the old address,
\* which would have paid out before, now fails with TssAuthFailed
C30_Witness ==
    /\ UpdatedTss
    /\ tss_pda.chain_id = tx.pre.tss_pda.chain_id
    /\ tss_pda.tss_eth_address # tx.pre.tss_pda.tss_eth_address
    /\ \E recipient \in Recipients :
          /\ pushsolanagateway(tx.pre, OldCall(MaxAmount, recipient)).err = "Ok"
          /\ pushsolanagateway(World, OldCall(MaxAmount, recipient)).err = "TssAuthFailed"

----------------------------------------------------------------------------
(* C31: one nonce space for the four instructions *)

\* a call of instruction `op` for nonce `nonce`, paying ADMIN (mint MINT_A), that
\* carries what the TSS key of the stored record produces for it
GenuineCall(op, nonce) ==
    LET additional == IF op \in TokenOps THEN MINT_A ELSE ADMIN
        m == Msg(InstructionIdOf(op), tss_pda.chain_id, nonce, MaxAmount, additional)
    IN  TssCall(op, MaxAmount, nonce, ADMIN, ADMIN, MINT_A, ADMIN,
                [hashed |-> m, sig_over |-> m, sig_signer |-> tss_pda.tss_eth_address, recovery_id |-> 0])

\* the executed call is of another instruction than the remembered call and claims
\* the nonce that call consumed
SameNonceOtherInstruction == SameNonce /\ InstructionIdOf(tx.op) # marked.tuple.hashed.id

\* C31 as stated: once a call has succeeded with nonce n, every later call of any of
\* the four instructions with nonce n that gets as far as validate_message fails with
\* NonceMismatch.
C31_NonceNeverAcceptedAgain ==
    (SameNonce /\ ReachesVerification) => tx.err = "NonceMismatch"

\* C31 (amended): the four instructions share the nonce of the TSS record. A call is
\* accepted only with the stored nonce and leaves it one higher; right after a call
\* was accepted with nonce n, a correctly signed call of any of the four instructions
\* fails with NonceMismatch when it carries n and does not when it carries n + 1; and
\* until a reset_nonce is committed every later call with nonce n fails, with
\* NonceMismatch once it gets as far as validate_message.
C31_SharedNonceSpace ==
    /\ (TssExecuted /\ tx.err = "Ok") =>
          /\ tx.call.nonce = tx.pre.tss_pda.nonce
          /\ tss_pda.nonce = tx.call.nonce + 1
          /\ \A op \in TssOps :
                /\ pushsolanagateway(World, GenuineCall(op, tx.call.nonce)).err = "NonceMismatch"
                /\ tss_pda.nonce + 1 <= U64_MAX =>
                      pushsolanagateway(World, GenuineCall(op, tx.call.nonce + 1)).err # "NonceMismatch"
    /\ (SameNonce /\ ~marked.reset) =>
          /\ tx.err # "Ok"
          /\ ReachesVerification => tx.err = "NonceMismatch"

\* a correctly signed call of another instruction was turned down for carrying the
\* nonce an earlier call had consumed
C31_Witness ==
    /\ SameNonceOtherInstruction
    /\ ~marked.reset
    /\ GenuineCredentials
    /\ tx.err = "NonceMismatch"

----------------------------------------------------------------------------
(* C32: the caps are a closed interval *)

\* the 8-decimal USD amount the check computed
Scaled == usd_amount_8dec(tx.call.lamports, tx.call.price_data)

\* C32: check_usd_caps_with_pyth succeeds iff min_cap <= scaled <= max_cap, fails with
\* BelowMinCap iff scaled < min_cap, fails with AboveMaxCap iff scaled >= min_cap and
\* scaled > max_cap, and leaves the configuration and every other account as it was.
C32_ClosedInterval ==
    CapsChecked =>
        /\ tx.err = "Ok" <=>
              (tx.pre.config.min_cap_universal_tx_usd <= Scaled /\ Scaled <= tx.pre.config.max_cap_universal_tx_usd)
        /\ tx.err = "BelowMinCap" <=> Scaled < tx.pre.config.min_cap_universal_tx_usd
        /\ tx.err = "AboveMaxCap" <=>
              (Scaled >= tx.pre.config.min_cap_universal_tx_usd /\ Scaled > tx.pre.config.max_cap_universal_tx_usd)
        /\ StateUnchanged

\* an amount worth exactly the maximum passed, the minimum being lower
C32_Witness ==
    /\ CapsChecked
    /\ Scaled = tx.pre.config.max_cap_universal_tx_usd
    /\ Scaled > tx.pre.config.min_cap_universal_tx_usd
    /\ tx.err = "Ok"

----------------------------------------------------------------------------
(* C33: confidence and publish time play no part *)

\* pyth_confidence_threshold values, confidence intervals and publish times a second
\* run is made with: the initialized threshold and a threshold of 1, a narrow and a
\* very wide interval, a reading published at time 0 and a later one
OtherThresholds == {1, 1000000}
OtherConfidences == {0, 1000, 2000000000}
OtherPublishTimes == {0, 1}

\* the accounts `w` with the confidence threshold set to `threshold`
WithThreshold(w, threshold) == [w EXCEPT !.config.pyth_confidence_threshold = threshold]

\* the executed call with another confidence interval and publish time in its reading
WithReading(c, conf, publish_time) == [c EXCEPT !.price_update.conf = conf, !.price_update.publish_time = publish_time]

\* C33: a send_tx_with_gas or send_tx_with_funds run again on the same accounts with
\* another pyth_confidence_threshold, and a price reading that differs only in its
\* confidence interval and publish time, gives the same result: the same error, or
\* the same transfers and messages.
C33_ConfidenceIgnored ==
    (Executed /\ tx.op \in GasOps) =>
        \A threshold \in OtherThresholds, conf \in OtherConfidences, publish_time \in OtherPublishTimes :
            LET r == pushsolanagateway(WithThreshold(tx.pre, threshold), WithReading(tx.call, conf, publish_time))
            IN  /\ r.err = tx.err
                /\ tx.err = "Ok" => (r.events = tx.events /\ r.w = WithThreshold(World, threshold))

\* a gas deposit went through that also goes through with a threshold of 1, a very
\* wide confidence interval and a reading published at time 0
C33_Witness ==
    /\ tx.op = "send_tx_with_gas"
    /\ tx.err = "Ok"
    /\ tx.call.amount > 0
    /\ pushsolanagateway(WithThreshold(tx.pre, 1), WithReading(tx.call, 2000000000, 0)).err = "Ok"

----------------------------------------------------------------------------
(* C34: how many tokens the whitelist holds *)

\* the number of tokens that fit the whitelist account
WhitelistCapacity == (TokenWhitelist_LEN - SerializedLen(<<>>)) \div 32

\* whitelist_token by the admin, on a running gateway, for a token the list does not hold
AddsNewToken ==
    /\ tx.op = "whitelist_token"
    /\ tx.pre.config.init /\ ~tx.pre.config.paused
    /\ tx.call.signer = tx.pre.config.admin
    /\ tx.call.token # Default
    /\ ~Contains(tx.pre.whitelist, tx.call.token)

----------------------------------------------------------------------------
(* C35: the funds deposits *)

\* a send_funds or send_funds_native returned Ok
FundsDeposited == Executed /\ tx.op \in {"send_funds", "send_funds_native"} /\ tx.err = "Ok"

\* the token whose custody grows: the zero key stands for native SOL
DepositedToken == IF tx.op = "send_funds" THEN tx.call.bridge_token ELSE Default

\* what the vault holds of a token, native SOL under the zero key, in accounts w
Custody(w, token) == IF token = Default THEN w.lamports[VAULT] ELSE w.token_amount[<<VAULT, token>>]

\* what the depositor holds of a token, native SOL under the zero key, in accounts w
Holding(w, token) == IF token = Default THEN w.lamports[tx.call.signer] ELSE w.token_amount[<<tx.call.signer, token>>]

\* C35: a successful send_funds or send_funds_native had a recipient and a revert
\* recipient other than the zero key and a positive amount (and, for send_funds, a
\* token other than the zero key); it moved exactly the amount of the deposited token
\* from the depositor into the vault; and it emitted exactly one TxWithFunds event of
\* type Funds with empty data, gas amount 0, the supplied recipient and revert
\* configuration, and as token the deposited token for send_funds, the zero key for
\* send_funds_native.
C35_FundsDeposit ==
    FundsDeposited =>
        /\ tx.call.recipient # Default
        /\ tx.call.fund_recipient # Default
        /\ tx.call.amount > 0
        /\ tx.op = "send_funds" => tx.call.bridge_token # Default
        /\ Custody(World, DepositedToken) = Custody(tx.pre, DepositedToken) + tx.call.amount
        /\ Holding(World, DepositedToken) = Holding(tx.pre, DepositedToken) - tx.call.amount
        /\ tx.op = "send_funds" => MovedMints = {tx.call.bridge_token}
        /\ tx.events = << [event |-> "TxWithFunds", sender |-> tx.call.signer, recipient |-> tx.call.recipient,
                           bridge_amount |-> tx.call.amount, gas_amount |-> 0, bridge_token |-> DepositedToken,
                           data |-> <<>>, revert_cfg |-> [fund_recipient |-> tx.call.fund_recipient],
                           tx_type |-> "Funds"] >>

----------------------------------------------------------------------------
(* C36: the destination of a withdrawal and the signed message *)

\* the accounts whose balance is higher in accounts w than it was before the executed
\* instruction: native accounts by key, token accounts by owner and mint
Credited(w) ==
    {k \in DOMAIN w.lamports : w.lamports[k] > tx.pre.lamports[k]}
        \cup {acct \in DOMAIN w.token_amount : w.token_amount[acct] > tx.pre.token_amount[acct]}

\* the executed call submitted again with the same message hash, signature, amount,
\* nonce and token mint, and with destinations of the submitter's choice: the recipient
\* account, the owner of the recipient token account, the revert recipient
Resubmitted ==
    {[tx.call EXCEPT !.recipient = r, !.dest_owner = o, !.fund_recipient = f] :
        r \in Signers \cup {tx.call.recipient}, o \in Signers \cup {tx.call.dest_owner}, f \in Signers \cup {tx.call.fund_recipient}}

\* C36: the account a successful withdrawal pays is determined by the signed message:
\* when a withdrawal succeeded, every submission of the same signed message on the same
\* accounts that succeeds pays the same account, whatever destination accounts the
\* submitter supplies.
C36_DestinationIsSigned ==
    (TssExecuted /\ tx.err = "Ok") =>
        \A c \in Resubmitted :
            LET r == pushsolanagateway(tx.pre, c)
            IN  r.err = "Ok" => Credited(r.w) = Credited(World)

----------------------------------------------------------------------------
(* C37: configuration and the pause flag *)

\* an admin configuration instruction was executed on a paused gateway
PausedAdminCall == Executed /\ tx.op \in AdminOps /\ tx.pre.config.init /\ tx.pre.config.paused

\* the keys PauseAction accepts on the current accounts
PauseKeys == {config.admin, config.pauser}

\* C37: while the gateway is paused, set_tss_address, set_caps_usd, set_pyth_price_feed,
\* set_pyth_confidence_threshold, whitelist_token and remove_whitelist_token fail with
\* PausedError and leave every account unchanged, whoever signs; pause and unpause
\* signed by the admin or by the pauser still succeed, and unpause clears the flag, so
\* every paused state has an unpaused successor.
C37_PausedConfigurationFrozen ==
    /\ PausedAdminCall => (tx.err = "PausedError" /\ StateUnchanged)
    /\ (config.init /\ config.paused) =>
          \A k \in PauseKeys :
              /\ unpause(World, k).err = "Ok" /\ ~unpause(World, k).w.config.paused
              /\ pause(World, k).err = "Ok" /\ pause(World, k).w.config.paused

\* the admin's configuration call failed on a paused gateway that the pauser can unpause
C37_Witness ==
    /\ PausedAdminCall
    /\ tx.call.signer = tx.pre.config.admin
    /\ tx.err = "PausedError"
    /\ config.paused
    /\ ~unpause(World, config.pauser).w.config.paused

----------------------------------------------------------------------------
(* C38: custody of native SOL *)

\* the lamports a successful deposit puts into the vault: the amount of a gas deposit,
\* of a native funds deposit and of a legacy add_funds, and the gas leg plus the native
\* bridge leg of send_tx_with_funds
NativeDeposited ==
    IF tx.err # "Ok" THEN 0
    ELSE IF tx.op \in {"send_tx_with_gas", "send_funds_native", "add_funds"} THEN tx.call.amount
    ELSE IF tx.op = "send_tx_with_funds" THEN tx.call.gas_amount + (IF tx.call.bridge_token = Default THEN tx.call.amount ELSE 0)
    ELSE 0

\* the lamports a successful native withdrawal takes out of the vault
NativeWithdrawn ==
    IF tx.err = "Ok" /\ tx.op \in {"withdraw_tss", "revert_withdraw"} THEN tx.call.amount ELSE 0

----------------------------------------------------------------------------
(* C39: the nonce at its maximum *)

\* a TSS-gated instruction was executed while the stored nonce was u64::MAX
AtMaxNonce == TssExecuted /\ tx.pre.tss_pda.init /\ tx.pre.tss_pda.nonce = U64_MAX

\* C39: the nonce never wraps around. It stays within 0..u64::MAX and is lowered by
\* reset_nonce only; a TSS-gated instruction executed while the stored nonce is
\* u64::MAX fails and leaves the nonce and every other account unchanged, and when
\* it reaches validate_message with nonce u64::MAX the error is NonceMismatch; the
\* stored nonce leaves u64::MAX only in a successful reset_nonce.
C39_NonceNeverWraps ==
    /\ tss_pda.nonce \in 0..U64_MAX
    /\ (Executed /\ tss_pda.nonce < tx.pre.tss_pda.nonce) => (tx.op = "reset_nonce" /\ tx.err = "Ok")
    /\ AtMaxNonce =>
          /\ tx.err # "Ok"
          /\ tss_pda.nonce = U64_MAX
          /\ StateUnchanged
          /\ (ReachesVerification /\ tx.call.nonce = U64_MAX) => (tx.err = "NonceMismatch" /\ tx.verify = "Rejected")
    /\ (Executed /\ tx.pre.tss_pda.init /\ tx.pre.tss_pda.nonce = U64_MAX /\ tss_pda.nonce # U64_MAX) =>
          (tx.op = "reset_nonce" /\ tx.err = "Ok")

\* a call with nonce u64::MAX and the TSS key's signature over its message was
\* rejected with NonceMismatch while the stored nonce was u64::MAX
C39_Witness ==
    /\ AtMaxNonce
    /\ ReachesVerification
    /\ tx.call.nonce = U64_MAX
    /\ GenuineCredentials
    /\ tx.err = "NonceMismatch"
    /\ tss_pda.nonce = U64_MAX

====
